---------------------------- MODULE Spec2Model ----------------------------
(***************************************************************************)
(* Enrollment reconciliation (routers/enrollment_portal.py) and the        *)
(* academic-year lifecycle (routers/school_years.py) of the school         *)
(* administration backend, over the tables declared in models.py.          *)
(*                                                                         *)
(* UUIDs are natural numbers >= 1 drawn from a fresh-id counter; Null (0)  *)
(* is Python's None / SQL NULL.  Strings that the code parses (client ids, *)
(* class names, program names) are modelled by their structure, never by   *)
(* the value they parse to.                                                *)
(***************************************************************************)
EXTENDS Integers, Sequences, FiniteSets, TLC

VARIABLES
    db,          \* committed rows: families, guardians, students, emergency_contacts, enrollments
    classes,     \* committed rows of table classes
    years,       \* committed rows of table academic_years
    nextId,      \* source of fresh uuid4() values
    nextYearId,  \* autoincrement of academic_years.id
    nSubmitted,  \* number of free-form submissions handled so far
    last,        \* the last submit_enrollment call: request, response, store before it
    ylast,       \* the last school-year call: operation, arguments, response
    nAdmin,      \* number of admin calls on families, classes and enrollments so far
    alast,       \* the last such admin call: operation, arguments, status, store before it
    probe,       \* the last call of a helper function or read-only query: arguments, result
    yearTxn,     \* per request in flight: a transition_school_year call, step by step
    submitTxn,   \* per request in flight: a submit_enrollment call, its work and its commit
    nCommits,    \* number of commits of requests in flight so far
    nFamilyCalls, \* number of requests to the admin routes of families.py so far
    flast        \* the last of them: route, caller, arguments, store before, status

vars == <<db, classes, years, nextId, nextYearId, nSubmitted, last, ylast, nAdmin, alast,
          probe, yearTxn, submitTxn, nCommits, nFamilyCalls, flast>>

----------------------------------------------------------------------------
(* Bounds of the model *)

\* most entries a request carries over its four lists together
MaxEntries == 2
\* free-form submissions per behaviour (each may be followed by one echo resubmission)
MaxSubmissions == 1
\* highest academic_years.id the autoincrement hands out
MaxYearId == 3
\* admin calls on families, classes and enrollments per behaviour
MaxAdminCalls == 2
\* requests to the admin routes of families.py per behaviour
MaxFamilyCalls == 2

----------------------------------------------------------------------------
(* Values *)

Null == 0

NoneStr == "None"

\* Optional[int] returned by parse_class_level: <<>> is None, <<n>> is n
Absent == << >>

SeqToSet(s) == { s[i] : i \in 1..Len(s) }

\* the one element of a singleton.  A statement's result is computed once and
\* named: Only({ F(x) : x \in {e} }) is F applied to the value of e
Only(S) == CHOOSE x \in S : TRUE

----------------------------------------------------------------------------
(* Character strings: class and program names are sequences of characters *)

DigitChars == <<"0", "1", "2", "3", "4", "5", "6", "7", "8", "9">>

IsDigit(c) == \E i \in 1..10 : DigitChars[i] = c

DigitVal(c) == (CHOOSE i \in 1..10 : DigitChars[i] = c) - 1

IsSpace(c) == c = " "

RECURSIVE LStrip(_)
LStrip(s) == IF s # << >> /\ IsSpace(Head(s)) THEN LStrip(Tail(s)) ELSE s

RECURSIVE RStrip(_)
RStrip(s) ==
    IF s # << >> /\ IsSpace(s[Len(s)]) THEN RStrip(SubSeq(s, 1, Len(s) - 1)) ELSE s

\* str.strip()
Strip(s) == RStrip(LStrip(s))

\* length of the maximal run of digits at the end of s
RECURSIVE TrailingDigits(_)
TrailingDigits(s) ==
    IF s # << >> /\ IsDigit(s[Len(s)])
    THEN 1 + TrailingDigits(SubSeq(s, 1, Len(s) - 1))
    ELSE 0

\* int() of a sequence of digits
RECURSIVE DigitsToInt(_)
DigitsToInt(s) ==
    IF s = << >> THEN 0
    ELSE 10 * DigitsToInt(SubSeq(s, 1, Len(s) - 1)) + DigitVal(s[Len(s)])

\* Python's `sub in s` on strings
Contains(sub, s) ==
    \E i \in 1..(Len(s) + 1) :
        /\ i + Len(sub) - 1 <= Len(s)
        /\ SubSeq(s, i, i + Len(sub) - 1) = sub

\* mutant: the name is searched as given, without strip()
parse_class_level_unstripped(class_name) ==
    LET n == TrailingDigits(class_name)
    IN  IF n = 0 THEN Absent
        ELSE << DigitsToInt(SubSeq(class_name, Len(class_name) - n + 1,
                                   Len(class_name))) >>

\* re.search(r'(\d+)$', class_name.strip()) and int(match.group(1))
parse_class_level(class_name) ==
    LET t == Strip(class_name)
        n == TrailingDigits(t)
    IN  IF n = 0 THEN Absent
        ELSE << DigitsToInt(SubSeq(t, Len(t) - n + 1, Len(t))) >>

----------------------------------------------------------------------------
(* Client-supplied id strings.                                             *)
(*   k = "none"  : the field is absent (None)                              *)
(*   k = "empty" : ""                                                      *)
(*   k = "tmp"   : a placeholder such as "new-1" (v numbers it)            *)
(*   k = "uuid"  : str(uuid) of the UUID v, lower-case canonical form      *)
(*   k = "UUID"  : the same UUID written in upper case                     *)

NoIdStr == [k |-> "none", v |-> 0]
EmptyStr == [k |-> "empty", v |-> 0]
TmpStr(n) == [k |-> "tmp", v |-> n]
StrOf(u) == [k |-> "uuid", v |-> u]
UpperStrOf(u) == [k |-> "UUID", v |-> u]

\* Python truthiness of an Optional[str]
Truthy(id_str) == id_str.k \notin {"none", "empty"}

try_parse_uuid(id_str) ==
    IF ~Truthy(id_str) THEN Null
    ELSE IF id_str.k \in {"uuid", "UUID"} THEN id_str.v
    ELSE Null

\* a dict keyed by id strings, as a set of <<key, value>> pairs
MapPut(m, key, val) == { p \in m : p[1] # key } \cup { <<key, val>> }

MapGet(m, key) ==
    IF \E p \in m : p[1] = key THEN (CHOOSE p \in m : p[1] = key)[2] ELSE Null


----------------------------------------------------------------------------
(* Tables (models.py).  A table is the set of its rows; a row is a record. *)
(* One column stands for the business columns of a child that the handler  *)
(* copies together: Guardian.email (the only one with a constraint),       *)
(* Student.first_name, EmergencyContact.name, Family.family_name.          *)

Ids(rows) == { r.id : r \in rows }

Row(rows, id) == CHOOSE r \in rows : r.id = id

\* table programs
Programs ==
    { [id |-> 1, name |-> <<"G", "i", "a", "o", " ", "L", "y">>],
      [id |-> 2, name |-> <<"V", "i", "e", "t", " ", "N", "g", "u">>],
      [id |-> 3, name |-> <<"T", "N", "T", "T">>] }

GiaoLyAscii == <<"G", "i", "a", "o", " ", "L", "y">>
GiaoLyAccented == <<"G", "i", "á", "o", " ", "L", "ý">>
VietNguAscii == <<"V", "i", "e", "t", " ", "N", "g", "u">>
VietNguAccented == <<"V", "i", "ệ", "t", " ", "N", "g", "ữ">>

\* Guardian.email is unique=True; NULLs never collide.  The unit of work sends
\* the INSERTs and UPDATEs in item order and every DELETE after them, so a
\* statement is checked against the rows as they are when it runs.
EmailTaken(guardians, id, email) ==
    /\ email # NoneStr
    /\ \E g \in guardians : g.id # id /\ g.email = email

----------------------------------------------------------------------------
(* submit_enrollment, step 1: the family *)

\* mutant: an unknown family id falls through to the create branch
HandleFamilyCreatesMissing(s, request) ==
    IF request.family_id # Null /\ request.family_id \in Ids(s.families)
    THEN [s EXCEPT !.families =
              { IF f.id = request.family_id
                THEN [f EXCEPT !.family_name = request.family_name] ELSE f
                : f \in s.families },
            !.family = request.family_id]
    ELSE [s EXCEPT !.families =
              @ \cup { [id |-> s.nextId, family_name |-> request.family_name] },
            !.family = s.nextId,
            !.nextId = @ + 1]

HandleFamily(s, request) ==
    IF request.family_id # Null
    THEN IF request.family_id \notin Ids(s.families)
         THEN [s EXCEPT !.err = 404]
         ELSE [s EXCEPT !.families =
                   { IF f.id = request.family_id
                     THEN [f EXCEPT !.family_name = request.family_name] ELSE f
                     : f \in s.families },
                 !.family = request.family_id]
    ELSE [s EXCEPT !.families =
              @ \cup { [id |-> s.nextId, family_name |-> request.family_name] },
            !.family = s.nextId,
            !.nextId = @ + 1]

\* the ids of the family's children, loaded only `if request.family_id`
\* mutant: the existing ids are never loaded
ExistingIdsNotLoaded(rows, request, family) == {}

ExistingIds(rows, request, family) ==
    IF request.family_id # Null
    THEN { r.id : r \in { x \in rows : x.family_id = family } }
    ELSE {}

----------------------------------------------------------------------------
(* step 2: guardians.  L = the loop's state: the session's rows, the fresh  *)
(* id counter, submitted_guardian_ids, the durable id each item ended on,  *)
(* and the error raised so far (Null: none).                               *)

GuardianIsUpdate(rows, existing, id_str) ==
    LET u == try_parse_uuid(id_str) IN u # Null /\ u \in existing

GuardianItem(L, it, family, existing) ==
    IF GuardianIsUpdate(L.rows, existing, it.id)
    THEN LET u == try_parse_uuid(it.id) IN
         IF EmailTaken(L.rows, u, it.email) THEN [L EXCEPT !.err = 500]
         ELSE [L EXCEPT !.rows = { IF g.id = u THEN [g EXCEPT !.email = it.email]
                                   ELSE g : g \in L.rows },
                        !.submitted = @ \cup {u},
                        !.ids = Append(@, u)]
    ELSE IF EmailTaken(L.rows, L.nextId, it.email) THEN [L EXCEPT !.err = 500]
         ELSE [L EXCEPT !.rows = @ \cup { [id |-> L.nextId, family_id |-> family,
                                           email |-> it.email] },
                        !.nextId = @ + 1,
                        !.ids = Append(@, L.nextId)]

RECURSIVE GuardianLoop(_, _, _, _)
GuardianLoop(L, items, family, existing) ==
    IF items = << >> \/ L.err # Null THEN L
    ELSE Only({ GuardianLoop(L1, Tail(items), family, existing) :
                  L1 \in { GuardianItem(L, Head(items), family, existing) } })

\* mutant: guardians left out of the submission are kept
DeleteRowsKeepsAll(rows, to_delete) == rows

\* db.delete of every row whose id is in to_delete
DeleteRows(rows, to_delete) == { r \in rows : r.id \notin to_delete }

LoopInit(rows, nid) ==
    [rows |-> rows, nextId |-> nid, submitted |-> {}, ids |-> << >>,
     map |-> {}, err |-> Null]

HandleGuardians(s, request) ==
    LET existing == ExistingIds(s.guardians, request, s.family)
        Done(L) ==
            IF L.err # Null THEN [s EXCEPT !.err = L.err]
            ELSE [s EXCEPT !.guardians = DeleteRows(L.rows, existing \ L.submitted),
                           !.nextId = L.nextId,
                           !.ids.guardians = L.ids]
    IN  Only({ Done(L) : L \in { GuardianLoop(LoopInit(s.guardians, s.nextId),
                                              request.guardians, s.family, existing) } })


----------------------------------------------------------------------------
(* step 3: students.  L.map is student_id_map: submitted id string -> id   *)

\* mutant: any parseable id that names a student row is updated
StudentIsUpdateAnyRow(rows, existing, id_str) ==
    LET u == try_parse_uuid(id_str) IN u # Null /\ u \in Ids(rows)

StudentIsUpdate(rows, existing, id_str) ==
    LET u == try_parse_uuid(id_str) IN u # Null /\ u \in existing

\* mutant: the temporary id of a new student is not recorded
MapNewStudentSkips(map, id_str, new_id) == map

\* lines 546-548: `if student_data.id: student_id_map[student_data.id] = new_student.id`
MapNewStudent(map, id_str, new_id) ==
    IF Truthy(id_str) THEN MapPut(map, id_str, new_id) ELSE map

StudentItem(L, it, family, existing) ==
    LET u == try_parse_uuid(it.id) IN
    IF StudentIsUpdate(L.rows, existing, it.id)
    THEN [L EXCEPT !.rows = { IF r.id = u THEN [r EXCEPT !.first_name = it.first_name]
                              ELSE r : r \in L.rows },
                   !.submitted = @ \cup {u},
                   !.ids = Append(@, u),
                   !.map = MapPut(@, it.id, u)]
    ELSE [L EXCEPT !.rows = @ \cup { [id |-> L.nextId, family_id |-> family,
                                      first_name |-> it.first_name] },
                   !.nextId = @ + 1,
                   !.ids = Append(@, L.nextId),
                   !.map = MapNewStudent(@, it.id, L.nextId)]

RECURSIVE StudentLoop(_, _, _, _)
StudentLoop(L, items, family, existing) ==
    IF items = << >> THEN L
    ELSE Only({ StudentLoop(L1, Tail(items), family, existing) :
                  L1 \in { StudentItem(L, Head(items), family, existing) } })

\* Student.enrollments declares no delete cascade and enrollments.student_id is
\* nullable: deleting a student sets student_id of its enrollments to NULL
NullifyEnrollments(enrollments, deleted) ==
    { IF e.student_id \in deleted THEN [e EXCEPT !.student_id = Null] ELSE e
      : e \in enrollments }

HandleStudents(s, request) ==
    LET existing == ExistingIds(s.students, request, s.family)
        Done(L) ==
            LET students_to_delete == existing \ L.submitted
            IN  [s EXCEPT !.students = DeleteRows(L.rows, students_to_delete),
                          !.enrollments = NullifyEnrollments(@, students_to_delete),
                          !.nextId = L.nextId,
                          !.ids.students = L.ids,
                          !.student_id_map = L.map]
    IN  Only({ Done(L) : L \in { StudentLoop(LoopInit(s.students, s.nextId),
                                             request.students, s.family, existing) } })

----------------------------------------------------------------------------
(* step 4: emergency contacts *)

ContactIsUpdate(rows, existing, id_str) ==
    LET u == try_parse_uuid(id_str) IN u # Null /\ u \in existing

ContactItem(L, it, family, existing) ==
    LET u == try_parse_uuid(it.id) IN
    IF ContactIsUpdate(L.rows, existing, it.id)
    THEN [L EXCEPT !.rows = { IF r.id = u THEN [r EXCEPT !.name = it.name]
                              ELSE r : r \in L.rows },
                   !.submitted = @ \cup {u},
                   !.ids = Append(@, u)]
    ELSE [L EXCEPT !.rows = @ \cup { [id |-> L.nextId, family_id |-> family,
                                      name |-> it.name] },
                   !.nextId = @ + 1,
                   !.ids = Append(@, L.nextId)]

RECURSIVE ContactLoop(_, _, _, _)
ContactLoop(L, items, family, existing) ==
    IF items = << >> THEN L
    ELSE Only({ ContactLoop(L1, Tail(items), family, existing) :
                  L1 \in { ContactItem(L, Head(items), family, existing) } })

HandleEmergencyContacts(s, request) ==
    LET existing == ExistingIds(s.emergency_contacts, request, s.family)
        Done(L) ==
            [s EXCEPT !.emergency_contacts = DeleteRows(L.rows, existing \ L.submitted),
                      !.nextId = L.nextId,
                      !.ids.emergency_contacts = L.ids]
    IN  Only({ Done(L) : L \in { ContactLoop(LoopInit(s.emergency_contacts, s.nextId),
                                             request.emergency_contacts, s.family,
                                             existing) } })

----------------------------------------------------------------------------
(* step 5: class enrollments *)

CurrentYearClasses(cls, academic_year_id) ==
    { c \in cls : c.academic_year_id = academic_year_id }

\* cls.program (None when program_id names no program)
ProgramOf(c) ==
    IF c.program_id \in Ids(Programs) THEN << Row(Programs, c.program_id) >> ELSE << >>

\* `if level:` -- None and 0 are both falsy
LevelOf(c) ==
    LET level == parse_class_level(c.name)
    IN  IF level = Absent THEN Null ELSE level[1]

IsGiaoLy(c) ==
    /\ ProgramOf(c) # << >>
    /\ LevelOf(c) # Null
    /\ \/ Contains(GiaoLyAscii, ProgramOf(c)[1].name)
       \/ Contains(GiaoLyAccented, c.name)

IsVietNgu(c) ==
    /\ ProgramOf(c) # << >>
    /\ LevelOf(c) # Null
    /\ ~IsGiaoLy(c)
    /\ \/ Contains(VietNguAscii, ProgramOf(c)[1].name)
       \/ Contains(VietNguAccented, c.name)

\* The dicts giao_ly_classes / viet_ngu_classes: level -> class id.  When two
\* classes of the year share a level the row order of the SELECT decides which
\* one the dict keeps, so every choice is a possible dict.
LevelDicts(cands) ==
    LET levels == { LevelOf(c) : c \in cands }
    IN  { f \in [levels -> Ids(cands)] :
            \A l \in levels : \E c \in cands : c.id = f[l] /\ LevelOf(c) = l }

\* mutant: the enrollments of the target year are not cleared
DeleteYearEnrollmentsSkips(enrollments, request, map, cyc) == enrollments

\* lines 628-639: for every submitted student the map resolves, delete its
\* enrollments in the target year's classes
DeleteYearEnrollments(enrollments, request, map, cyc) ==
    LET resolved == { MapGet(map, request.students[i].id) :
                        i \in 1..Len(request.students) } \ {Null}
    IN  { e \in enrollments :
            ~(e.student_id \in resolved /\ e.class_id \in Ids(cyc)) }

\* lines 646-654
ResolveStudent(map, student_id) ==
    IF MapGet(map, student_id) # Null THEN MapGet(map, student_id)
    ELSE try_parse_uuid(student_id)

\* E = [rows, nextId, enrollment_ids]
SelectionItem(E, sel, map, gl, vn) ==
    LET student_id == ResolveStudent(map, sel.student_id)
        hasGl == sel.giao_ly_level # Null /\ sel.giao_ly_level \in DOMAIN gl
        hasVn == sel.viet_ngu_level # Null /\ sel.viet_ngu_level \in DOMAIN vn
        E1 == IF hasGl
              THEN [E EXCEPT !.rows = @ \cup { [id |-> E.nextId, student_id |-> student_id,
                                                class_id |-> gl[sel.giao_ly_level]] },
                             !.enrollment_ids = Append(@, E.nextId),
                             !.nextId = @ + 1]
              ELSE E
        E2 == IF hasVn
              THEN [E1 EXCEPT !.rows = @ \cup { [id |-> E1.nextId, student_id |-> student_id,
                                                 class_id |-> vn[sel.viet_ngu_level]] },
                              !.enrollment_ids = Append(@, E1.nextId),
                              !.nextId = @ + 1]
              ELSE E1
    IN  IF student_id = Null THEN E ELSE E2

RECURSIVE SelectionLoop(_, _, _, _, _)
SelectionLoop(E, sels, map, gl, vn) ==
    IF sels = << >> THEN E
    ELSE Only({ SelectionLoop(E1, Tail(sels), map, gl, vn) :
                  E1 \in { SelectionItem(E, Head(sels), map, gl, vn) } })

HandleEnrollments(s, request, cls, gl, vn) ==
    LET cyc == CurrentYearClasses(cls, request.academic_year_id)
        kept == DeleteYearEnrollments(s.enrollments, request, s.student_id_map, cyc)
        Done(E) ==
            [s EXCEPT !.enrollments = E.rows,
                      !.nextId = E.nextId,
                      !.enrollment_ids = E.enrollment_ids]
    IN  Only({ Done(E) : E \in { SelectionLoop([rows |-> kept, nextId |-> s.nextId,
                                                enrollment_ids |-> << >>],
                                               request.class_selections,
                                               s.student_id_map, gl, vn) } })

\* ForeignKey("students.id") on enrollments.student_id, checked by the INSERTs
\* that db.commit() flushes
ForeignKeysHold(s) ==
    \A e \in s.enrollments :
        e.student_id # Null => e.student_id \in Ids(s.students)


----------------------------------------------------------------------------
(* submit_enrollment as a whole: one transaction on one session *)

Tables(s) ==
    [families |-> s.families, guardians |-> s.guardians, students |-> s.students,
     emergency_contacts |-> s.emergency_contacts, enrollments |-> s.enrollments]

\* the session at the start of the request: nothing pending
Session(store, nid) ==
    [families |-> store.families, guardians |-> store.guardians,
     students |-> store.students, emergency_contacts |-> store.emergency_contacts,
     enrollments |-> store.enrollments,
     nextId |-> nid, family |-> Null, err |-> Null,
     ids |-> [guardians |-> << >>, students |-> << >>, emergency_contacts |-> << >>],
     student_id_map |-> {}, enrollment_ids |-> << >>]

\* mutant: what the session had flushed stays
RollbackKeepsFlushed(store, s) == Tables(s)

\* await db.rollback(): the store is what it was before the request
Rollback(store, s) == store

\* await db.commit()
Commit(store, s) == Tables(s)

\* an exception raised by the store itself at the class query of step 5 or
\* at the final commit; any exception reaches `except Exception` (line 689)
Faults == {"none", "execute", "commit"}

Then(s, next) == IF s.err # Null THEN s ELSE next

\* the session when the handler leaves the try block or enters an except clause
RunHandler(store, nid, cls, request, fault, gl, vn) ==
    LET S1 == { HandleFamily(Session(store, nid), request) }
        S2 == { Then(s, HandleGuardians(s, request)) : s \in S1 }
        S3 == { Then(s, HandleStudents(s, request)) : s \in S2 }
        S4 == { Then(s, HandleEmergencyContacts(s, request)) : s \in S3 }
        S5 == { Then(s, IF fault = "execute" THEN [s EXCEPT !.err = 500]
                        ELSE HandleEnrollments(s, request, cls, gl, vn)) : s \in S4 }
        S6 == { Then(s, IF fault = "commit" \/ ~ForeignKeysHold(s)
                        THEN [s EXCEPT !.err = 500] ELSE s) : s \in S5 }
    IN  Only(S6)

\* what the call leaves behind: the store, the id counter, the response and
\* what the client can read back (the durable id of every submitted child)
submit_enrollment(store, nid, cls, request, fault, gl, vn) ==
    LET Left(s) ==
            IF s.err # Null
            THEN [db |-> Rollback(store, s), nextId |-> s.nextId,
                  resp |-> [status |-> s.err, success |-> FALSE, family_id |-> Null,
                            enrollment_ids |-> << >>],
                  ids |-> s.ids, student_id_map |-> s.student_id_map]
            ELSE [db |-> Commit(store, s), nextId |-> s.nextId,
                  resp |-> [status |-> 200, success |-> TRUE, family_id |-> s.family,
                            enrollment_ids |-> s.enrollment_ids],
                  ids |-> s.ids, student_id_map |-> s.student_id_map]
    IN  Only({ Left(s) : s \in { RunHandler(store, nid, cls, request, fault, gl, vn) } })

----------------------------------------------------------------------------
(* The requests considered *)

GuardianEmails == {"e1", "e4"}
StudentNames == {"An", "Dung"}
ContactNames == {"Ba", "Du"}
FamilyNames == {"Le"}
\* (giao_ly_level, viet_ngu_level); Null: not enrolling.  No class has level 5.
LevelPairs == { <<3, Null>>, <<4, Null>>, <<Null, 2>>, <<5, Null>> }

GuardianItems(store) ==
    [id : {NoIdStr, TmpStr(1)} \cup { StrOf(u) : u \in Ids(store.guardians) },
     email : GuardianEmails]

StudentItems(store) ==
    [id : {NoIdStr, TmpStr(1)} \cup { StrOf(u) : u \in Ids(store.students) },
     first_name : StudentNames]

ContactItems(store) ==
    [id : {NoIdStr, EmptyStr} \cup { StrOf(u) : u \in Ids(store.emergency_contacts) },
     name : ContactNames]

Selection(student_id, pair) ==
    [student_id |-> student_id, giao_ly_level |-> pair[1], viet_ngu_level |-> pair[2]]

SelectionItems(store) ==
    { Selection(sid, pair) :
        sid \in {TmpStr(1)} \cup { StrOf(u) : u \in Ids(store.students) }
                \cup { UpperStrOf(u) : u \in Ids(store.students) },
        pair \in LevelPairs }

\* a UUID that names no family
MissingFamilyId(store) == CHOOSE u \in 1..(Cardinality(store.families) + 1) :
                              u \notin Ids(store.families)

FamilyIdChoices(store) == {Null, MissingFamilyId(store)} \cup Ids(store.families)

YearIdChoices == Ids(years) \cup {nextYearId}


----------------------------------------------------------------------------
(* School years (routers/school_years.py).  Each handler runs on a session  *)
(* of its own and commits once; an exception before the commit leaves the  *)
(* table as it was.                                                        *)

YearNames == {"2024-2025", "2025-2026", "2026-2027"}

\* datetime.date
Date(y, m, d) == [day |-> d, month |-> m, year |-> y]

\* school_years.py parse_year_label on the names considered: the two numbers
\* around the dash
parse_year_label(name) ==
    CASE name = "2024-2025" -> <<2024, 2025>>
      [] name = "2025-2026" -> <<2025, 2026>>
      [] name = "2026-2027" -> <<2026, 2027>>
      [] OTHER -> <<0, 0>>

ActiveYears(rows) == { y \in rows : y.is_active }

\* mutant: the other years keep their flag
DeactivateKeeps(rows, which) == rows

\* `active_year.is_active = False` for every year in `which`
Deactivate(rows, which) ==
    { IF y.id \in which THEN [y EXCEPT !.is_active = FALSE] ELSE y : y \in rows }

\* lines 289-322; the result is the table and the status of the response
create_school_year(rows, newId, year_data) ==
    LET existing == { y \in rows : y.name = year_data.name }
        cleared == IF year_data.is_active
                   THEN Deactivate(rows, Ids(ActiveYears(rows))) ELSE rows
        parsed == parse_year_label(year_data.name)
        new_year == [id |-> newId, name |-> year_data.name,
                     is_current |-> year_data.is_current,
                     is_active |-> year_data.is_active,
                     transition_date |-> IF parsed[1] # 0
                                         THEN << Date(parsed[1], 7, 1) >> ELSE Absent,
                     end_year |-> << parsed[2] >>,
                     start_year |-> << parsed[1] >>,
                     enrollment_open |-> year_data.enrollment_open]
    IN  IF Cardinality(existing) > 1 THEN [rows |-> rows, status |-> 500]
        ELSE IF existing # {} THEN [rows |-> rows, status |-> 400]
        ELSE [rows |-> cleared \cup {new_year}, status |-> 200]

\* year_data.model_dump(exclude_unset=True): a record of the fields the request set
YearUpdates ==
    { << >> }
    \cup [name : YearNames]
    \cup [is_active : BOOLEAN]
    \cup [name : YearNames, is_active : BOOLEAN]

\* lines 352-381
update_school_year(rows, year_id, update_data) ==
    LET sets_active == "is_active" \in DOMAIN update_data
        cleared == IF sets_active /\ update_data.is_active
                   THEN Deactivate(rows, Ids(ActiveYears(rows)) \ {year_id})
                   ELSE rows
        updated(y) ==
            [y EXCEPT !.name = IF "name" \in DOMAIN update_data
                                THEN update_data.name ELSE @,
                      !.is_active = IF sets_active THEN update_data.is_active ELSE @,
                      !.is_current = IF sets_active THEN update_data.is_active ELSE @]
    IN  IF year_id \notin Ids(rows) THEN [rows |-> rows, status |-> 404]
        ELSE [rows |-> { IF y.id = year_id THEN updated(y) ELSE y : y \in cleared },
              status |-> 200]

\* mutant: the year that was active is left active
transition_school_year_keeps_old(rows, new_active_year_id) ==
    LET active == ActiveYears(rows)
        previous_active_id == IF active = {} THEN Null
                              ELSE (CHOOSE y \in active : TRUE).id
        swapped == { IF y.id = new_active_year_id
                     THEN [y EXCEPT !.is_active = TRUE, !.is_current = TRUE]
                     ELSE y : y \in rows }
    IN  IF new_active_year_id \notin Ids(rows)
        THEN [rows |-> rows, status |-> 404, previous_active_year_id |-> Null,
              new_active_year_id |-> Null]
        ELSE [rows |-> swapped, status |-> 200,
              previous_active_year_id |-> previous_active_id,
              new_active_year_id |-> new_active_year_id]

\* lines 415-447; scalar_one_or_none() raises when two years are active
transition_school_year(rows, new_active_year_id) ==
    LET active == ActiveYears(rows)
        previous_active_id == IF active = {} THEN Null
                              ELSE (CHOOSE y \in active : TRUE).id
        swapped == { IF y.id = new_active_year_id
                     THEN [y EXCEPT !.is_active = TRUE, !.is_current = TRUE]
                     ELSE IF y.id = previous_active_id
                     THEN [y EXCEPT !.is_active = FALSE, !.is_current = FALSE]
                     ELSE y : y \in rows }
    IN  IF new_active_year_id \notin Ids(rows)
        THEN [rows |-> rows, status |-> 404, previous_active_year_id |-> Null,
              new_active_year_id |-> Null]
        ELSE IF Cardinality(active) > 1
        THEN [rows |-> rows, status |-> 500, previous_active_year_id |-> Null,
              new_active_year_id |-> Null]
        ELSE [rows |-> swapped, status |-> 200,
              previous_active_year_id |-> previous_active_id,
              new_active_year_id |-> Row(rows, new_active_year_id).id]

\* get_class_count_for_year
ClassCount(cls, year_id) == Cardinality({ c \in cls : c.academic_year_id = year_id })

\* mutant: the year is deleted whatever refers to it
delete_school_year_with_classes(rows, cls, year_id) ==
    IF year_id \notin Ids(rows) THEN [rows |-> rows, status |-> 404]
    ELSE [rows |-> { y \in rows : y.id # year_id }, status |-> 204]

\* lines 460-477
delete_school_year(rows, cls, year_id) ==
    IF year_id \notin Ids(rows) THEN [rows |-> rows, status |-> 404]
    ELSE IF ClassCount(cls, year_id) > 0 THEN [rows |-> rows, status |-> 400]
    ELSE [rows |-> { y \in rows : y.id # year_id }, status |-> 204]

----------------------------------------------------------------------------
(* Initial store: two families with children, classes in two academic      *)
(* years, a few enrollments; no year is active.                            *)

GL3 == <<"G", "i", "a", "o", " ", "L", "y", " ", "3">>
GL4 == <<"G", "i", "a", "o", " ", "L", "y", " ", "4">>
VN2 == <<"G", "r", "a", "d", "e", " ", "2", " ">>
AuNhi == <<"A", "u", " ", "N", "h", "i">>

InitStore ==
    [families |-> { [id |-> 1, family_name |-> "Ly"],
                    [id |-> 2, family_name |-> "Tran"] },
     guardians |-> { [id |-> 3, family_id |-> 1, email |-> "e1"],
                     [id |-> 4, family_id |-> 1, email |-> "e2"],
                     [id |-> 5, family_id |-> 1, email |-> NoneStr],
                     [id |-> 6, family_id |-> 2, email |-> "e3"] },
     students |-> { [id |-> 7, family_id |-> 1, first_name |-> "An"],
                    [id |-> 8, family_id |-> 1, first_name |-> "Binh"],
                    [id |-> 9, family_id |-> 2, first_name |-> "Chi"] },
     emergency_contacts |-> { [id |-> 10, family_id |-> 1, name |-> "Ba"],
                              [id |-> 11, family_id |-> 2, name |-> "Co"] },
     enrollments |-> { [id |-> 17, student_id |-> 7, class_id |-> 12],
                       [id |-> 18, student_id |-> 7, class_id |-> 15],
                       [id |-> 19, student_id |-> 9, class_id |-> 12],
                       [id |-> 20, student_id |-> 8, class_id |-> 16] }]

InitClasses ==
    { [id |-> 12, name |-> GL3, program_id |-> 1, academic_year_id |-> 1],
      [id |-> 13, name |-> GL4, program_id |-> 1, academic_year_id |-> 1],
      [id |-> 14, name |-> VN2, program_id |-> 2, academic_year_id |-> 1],
      [id |-> 15, name |-> GL3, program_id |-> 1, academic_year_id |-> 2],
      [id |-> 16, name |-> AuNhi, program_id |-> 3, academic_year_id |-> 1] }

InitYears ==
    { [id |-> 1, name |-> "2024-2025", is_current |-> FALSE, is_active |-> FALSE,
       transition_date |-> << Date(2024, 7, 1) >>, end_year |-> << 2025 >>,
       start_year |-> << 2024 >>, enrollment_open |-> FALSE],
      [id |-> 2, name |-> "2025-2026", is_current |-> FALSE, is_active |-> FALSE,
       transition_date |-> << Date(2025, 7, 1) >>, end_year |-> << 2026 >>,
       start_year |-> << 2025 >>, enrollment_open |-> TRUE] }

NoCall ==
    [op |-> "none", request |-> << >>, fault |-> "none", pre |-> InitStore,
     resp |-> [status |-> Null, success |-> FALSE, family_id |-> Null,
               enrollment_ids |-> << >>],
     ids |-> [guardians |-> << >>, students |-> << >>, emergency_contacts |-> << >>],
     student_id_map |-> {}]

NoYearCall ==
    [op |-> "none", year_id |-> Null, data |-> << >>, status |-> Null,
     previous_active_year_id |-> Null, new_active_year_id |-> Null]

NoProbe == [fn |-> "none", args |-> << >>, result |-> << >>]

\* two requests are served at a time, each on a database session of its own
Procs == {1, 2}

\* a request not yet received.  new_year and old_active_year hold the row the
\* session loaded, if any; read and committed are the values of nCommits when
\* the active year was selected and after the commit
NoYearTxn ==
    [pc |-> "idle", target |-> Null, new_year |-> {}, old_active_year |-> {},
     status |-> Null, read |-> Null, committed |-> Null]

\* a request not yet received.  pre is the committed store the handler read,
\* post the store as its session would commit it
NoSubmitTxn ==
    [pc |-> "idle", request |-> << >>, pre |-> InitStore, post |-> InitStore,
     status |-> Null, read |-> Null, committed |-> Null]

\* no request to an admin route of families.py yet
NoFamilyCall ==
    [op |-> "none", args |-> << >>, status |-> Null, pre |-> InitStore,
     authorization |-> "missing", provider |-> "unasked"]

NoAdminCall ==
    [op |-> "none", args |-> << >>, status |-> Null, pre |-> InitStore,
     pre_classes |-> InitClasses]

Init ==
    /\ db = InitStore
    /\ classes = InitClasses
    /\ years = InitYears
    /\ nextId = 21
    /\ nextYearId = 3
    /\ nSubmitted = 0
    /\ last = NoCall
    /\ ylast = NoYearCall
    /\ nAdmin = 0
    /\ alast = NoAdminCall
    /\ probe = NoProbe
    /\ yearTxn = [p \in Procs |-> NoYearTxn]
    /\ submitTxn = [p \in Procs |-> NoSubmitTxn]
    /\ nCommits = 0
    /\ nFamilyCalls = 0
    /\ flast = NoFamilyCall

----------------------------------------------------------------------------
(* Actions: one per handler call *)

Call(op, request, fault) ==
    LET cyc == CurrentYearClasses(classes, request.academic_year_id) IN
    \E gl \in LevelDicts({ c \in cyc : IsGiaoLy(c) }),
       vn \in LevelDicts({ c \in cyc : IsVietNgu(c) }) :
        \E out \in { submit_enrollment(db, nextId, classes, request, fault, gl, vn) } :
        /\ db' = out.db
        /\ nextId' = out.nextId
        /\ last' = [op |-> op, request |-> request, fault |-> fault, pre |-> db,
                    resp |-> out.resp, ids |-> out.ids,
                    student_id_map |-> out.student_id_map]
        /\ UNCHANGED <<classes, years, nextYearId, ylast, nAdmin, alast, probe,
                       yearTxn, submitTxn, nCommits, nFamilyCalls, flast>>

\* POST /api/enrollment/submit with any request of the bounded set
Submit ==
    /\ nSubmitted < MaxSubmissions
    /\ nSubmitted' = nSubmitted + 1
    /\ \E ng \in 0..MaxEntries :
       \E ns \in 0..(MaxEntries - ng) :
       \E nc \in 0..(MaxEntries - ng - ns) :
       \E nsel \in 0..(MaxEntries - ng - ns - nc) :
       \E guardians \in [1..ng -> GuardianItems(db)],
          students \in [1..ns -> StudentItems(db)],
          emergency_contacts \in [1..nc -> ContactItems(db)],
          class_selections \in [1..nsel -> SelectionItems(db)],
          family_id \in FamilyIdChoices(db),
          family_name \in FamilyNames,
          academic_year_id \in YearIdChoices,
          fault \in Faults :
            Call("submit",
                 [family_id |-> family_id, family_name |-> family_name,
                  guardians |-> guardians, students |-> students,
                  emergency_contacts |-> emergency_contacts,
                  class_selections |-> class_selections,
                  academic_year_id |-> academic_year_id],
                 fault)

\* the request of the last call with every durable id the client has seen
\* echoed back: the family id of the response, the id of every child, and the
\* student a selection was resolved to; `pairs` are the levels now selected
EchoItems(items, ids) ==
    [i \in 1..Len(items) |-> [items[i] EXCEPT !.id = StrOf(ids[i])]]

EchoSelections(sels, map, pairs) ==
    [i \in 1..Len(sels) |->
        Selection(IF MapGet(map, sels[i].student_id) # Null
                  THEN StrOf(MapGet(map, sels[i].student_id))
                  ELSE sels[i].student_id,
                  pairs[i])]

EchoRequest(pairs) ==
    [family_id |-> last.resp.family_id,
     family_name |-> last.request.family_name,
     guardians |-> EchoItems(last.request.guardians, last.ids.guardians),
     students |-> EchoItems(last.request.students, last.ids.students),
     emergency_contacts |-> EchoItems(last.request.emergency_contacts,
                                      last.ids.emergency_contacts),
     class_selections |-> EchoSelections(last.request.class_selections,
                                         last.student_id_map, pairs),
     academic_year_id |-> last.request.academic_year_id]

\* the same family submits its snapshot again, possibly with other levels
Resubmit ==
    /\ last.op = "submit"
    /\ last.resp.status = 200
    /\ UNCHANGED nSubmitted
    /\ \E pairs \in [1..Len(last.request.class_selections) -> LevelPairs] :
          Call("echo", EchoRequest(pairs), "none")

Next == Submit \/ Resubmit

Spec == Init /\ [][Next]_vars


----------------------------------------------------------------------------
(* School-year calls, one after the other *)

\* `data` is what a create request asked for, <<name, is_active>>
YearCall(op, year_id, data, out) ==
    /\ years' = out.rows
    /\ ylast' = [op |-> op, year_id |-> year_id, data |-> data, status |-> out.status,
                 previous_active_year_id |->
                     IF op = "transition" THEN out.previous_active_year_id ELSE Null,
                 new_active_year_id |->
                     IF op = "transition" THEN out.new_active_year_id ELSE Null]
    /\ UNCHANGED <<db, classes, nextId, nSubmitted, last, nAdmin, alast, probe,
                   yearTxn, submitTxn, nCommits, nFamilyCalls, flast>>

\* any id of the table and one that names no year
YearIdArgs == Ids(years) \cup {nextYearId}

CreateSchoolYear ==
    /\ nextYearId <= MaxYearId
    /\ \E year_data \in [name : YearNames, is_current : BOOLEAN, is_active : BOOLEAN,
                           enrollment_open : BOOLEAN] :
        \E out \in { create_school_year(years, nextYearId, year_data) } :
        /\ YearCall("create", IF out.status = 200 THEN nextYearId ELSE Null,
                    <<year_data.name, year_data.is_active>>, out)
        /\ nextYearId' = IF out.status = 200 THEN nextYearId + 1 ELSE nextYearId

UpdateSchoolYear ==
    /\ \E year_id \in YearIdArgs, update_data \in YearUpdates :
        YearCall("update", year_id, << >>, update_school_year(years, year_id, update_data))
    /\ UNCHANGED nextYearId

TransitionSchoolYear ==
    /\ \E year_id \in YearIdArgs :
        YearCall("transition", year_id, << >>, transition_school_year(years, year_id))
    /\ UNCHANGED nextYearId

DeleteSchoolYear ==
    /\ \E year_id \in YearIdArgs :
        YearCall("delete", year_id, << >>, delete_school_year(years, classes, year_id))
    /\ UNCHANGED nextYearId

NextYears ==
    \/ CreateSchoolYear
    \/ UpdateSchoolYear
    \/ TransitionSchoolYear
    \/ DeleteSchoolYear

SpecYears == Init /\ [][NextYears]_vars

\* update_school_year and transition_school_year only, on the years of Init
NextSync ==
    \/ UpdateSchoolYear
    \/ TransitionSchoolYear

SpecSync == Init /\ [][NextSync]_vars

\* create_school_year and update_school_year only
NextNames ==
    \/ CreateSchoolYear
    \/ UpdateSchoolYear

SpecNames == Init /\ [][NextNames]_vars

----------------------------------------------------------------------------
(* Admin handlers on families, students, classes and enrollments.  Each    *)
(* returns the store it commits (the store it was given when it raises)    *)
(* and the HTTP status.                                                    *)

\* families.py delete_family.  Family.guardians and Family.emergency_contacts
\* cascade "all, delete-orphan"; Family.students declares no cascade and
\* students.family_id is nullable, so the students are kept with family_id NULL
delete_family(store, family_id) ==
    IF family_id \notin Ids(store.families) THEN [db |-> store, status |-> 404]
    ELSE [db |-> [store EXCEPT
                    !.families = { f \in @ : f.id # family_id },
                    !.guardians = { g \in @ : g.family_id # family_id },
                    !.emergency_contacts = { c \in @ : c.family_id # family_id },
                    !.students = { IF s.family_id = family_id
                                   THEN [s EXCEPT !.family_id = Null] ELSE s : s \in @ }],
          status |-> 204]

\* families.py delete_student
delete_student(store, family_id, student_id) ==
    IF ~\E s \in store.students : s.id = student_id /\ s.family_id = family_id
    THEN [db |-> store, status |-> 404]
    ELSE [db |-> [store EXCEPT
                    !.students = DeleteRows(@, {student_id}),
                    !.enrollments = NullifyEnrollments(@, {student_id})],
          status |-> 204]

\* classes.py delete_class: the enrollments of the class, then the class
delete_class(store, cls, class_id) ==
    IF class_id \notin Ids(cls) THEN [db |-> store, classes |-> cls, status |-> 404]
    ELSE [db |-> [store EXCEPT !.enrollments = { e \in @ : e.class_id # class_id }],
          classes |-> DeleteRows(cls, {class_id}),
          status |-> 204]

\* select(Enrollment).where(student_id == ..., class_id == ...)
Matching(enrollments, student_id, class_id) ==
    { e \in enrollments : e.student_id = student_id /\ e.class_id = class_id }

\* classes.py enroll_student; scalar_one_or_none() raises when two rows match
enroll_student(store, cls, nid, class_id, student_id) ==
    LET n == Cardinality(Matching(store.enrollments, student_id, class_id))
    IN  IF class_id \notin Ids(cls) \/ student_id \notin Ids(store.students)
        THEN [db |-> store, nextId |-> nid, status |-> 404]
        ELSE IF n > 1 THEN [db |-> store, nextId |-> nid, status |-> 500]
        ELSE IF n = 1 THEN [db |-> store, nextId |-> nid, status |-> 400]
        ELSE [db |-> [store EXCEPT !.enrollments =
                         @ \cup { [id |-> nid, student_id |-> student_id,
                                   class_id |-> class_id] }],
              nextId |-> nid + 1, status |-> 201]

\* one turn of the loops of manual_enroll_student and bulk_enroll_students:
\* E = [rows, nextId, err]; `known` says the class (the student) exists.  The
\* SELECT autoflushes, so it sees the rows added by earlier turns
EnrollItem(E, known, student_id, class_id) ==
    LET n == Cardinality(Matching(E.rows, student_id, class_id))
    IN  IF ~known THEN E
        ELSE IF n > 1 THEN [E EXCEPT !.err = 500]
        ELSE IF n = 1 THEN E
        ELSE [E EXCEPT !.rows = @ \cup { [id |-> E.nextId, student_id |-> student_id,
                                          class_id |-> class_id] },
                       !.nextId = @ + 1]

RECURSIVE ManualLoop(_, _, _, _)
ManualLoop(E, cls, student_id, class_ids) ==
    IF class_ids = << >> \/ E.err # Null THEN E
    ELSE Only({ ManualLoop(E1, cls, student_id, Tail(class_ids)) :
                  E1 \in { EnrollItem(E, Head(class_ids) \in Ids(cls), student_id,
                                      Head(class_ids)) } })

EnrollOutcome(store, nid, E) ==
    IF E.err # Null THEN [db |-> store, nextId |-> E.nextId, status |-> E.err]
    ELSE [db |-> [store EXCEPT !.enrollments = E.rows], nextId |-> E.nextId,
          status |-> 200]

\* admin_enrollments.py manual_enroll_student
manual_enroll_student(store, cls, nid, student_id, class_ids) ==
    IF student_id \notin Ids(store.students)
    THEN [db |-> store, nextId |-> nid, status |-> 404]
    ELSE Only({ EnrollOutcome(store, nid, E) :
                  E \in { ManualLoop([rows |-> store.enrollments, nextId |-> nid,
                                      err |-> Null], cls, student_id, class_ids) } })

RECURSIVE BulkLoop(_, _, _, _)
BulkLoop(E, students, class_id, student_ids) ==
    IF student_ids = << >> \/ E.err # Null THEN E
    ELSE Only({ BulkLoop(E1, students, class_id, Tail(student_ids)) :
                  E1 \in { EnrollItem(E, Head(student_ids) \in Ids(students),
                                      Head(student_ids), class_id) } })

\* admin_enrollments.py bulk_enroll_students
bulk_enroll_students(store, cls, nid, class_id, student_ids) ==
    IF class_id \notin Ids(cls)
    THEN [db |-> store, nextId |-> nid, status |-> 404]
    ELSE Only({ EnrollOutcome(store, nid, E) :
                  E \in { BulkLoop([rows |-> store.enrollments, nextId |-> nid,
                                    err |-> Null], store.students, class_id,
                                   student_ids) } })

\* admin_enrollments.py remove_enrollment
remove_enrollment(store, student_id, class_id) ==
    LET found == Matching(store.enrollments, student_id, class_id)
    IN  IF found = {} THEN [db |-> store, status |-> 404]
        ELSE IF Cardinality(found) > 1 THEN [db |-> store, status |-> 500]
        ELSE [db |-> [store EXCEPT !.enrollments = @ \ found], status |-> 204]

\* classes.py unenroll_student
unenroll_student(store, class_id, student_id) ==
    LET found == Matching(store.enrollments, student_id, class_id)
    IN  IF found = {} THEN [db |-> store, status |-> 404]
        ELSE IF Cardinality(found) > 1 THEN [db |-> store, status |-> 500]
        ELSE [db |-> [store EXCEPT !.enrollments = @ \ found], status |-> 204]

\* path and body parameters: every id of the table and one that names no row
FamilyArgs == Ids(db.families) \cup {nextId}
StudentArgs == Ids(db.students) \cup {nextId}
ClassArgs == Ids(classes) \cup {nextId}
IdLists(S) == UNION { [1..n -> S] : n \in 0..MaxEntries }

AdminCall(op, args, newDb, newClasses, newNextId, status) ==
    /\ nAdmin < MaxAdminCalls
    /\ nAdmin' = nAdmin + 1
    /\ db' = newDb
    /\ classes' = newClasses
    /\ nextId' = newNextId
    /\ alast' = [op |-> op, args |-> args, status |-> status, pre |-> db,
                 pre_classes |-> classes]
    /\ UNCHANGED <<years, nextYearId, nSubmitted, last, ylast, probe,
                   yearTxn, submitTxn, nCommits, nFamilyCalls, flast>>

DeleteFamily ==
    \E family_id \in FamilyArgs :
    \E out \in { delete_family(db, family_id) } :
        AdminCall("delete_family", [family_id |-> family_id],
                  out.db, classes, nextId, out.status)

DeleteStudent ==
    \E family_id \in FamilyArgs, student_id \in StudentArgs :
    \E out \in { delete_student(db, family_id, student_id) } :
        AdminCall("delete_student", [family_id |-> family_id, student_id |-> student_id],
                  out.db, classes, nextId, out.status)

DeleteClass ==
    \E class_id \in ClassArgs :
    \E out \in { delete_class(db, classes, class_id) } :
        AdminCall("delete_class", [class_id |-> class_id],
                  out.db, out.classes, nextId, out.status)

EnrollStudent ==
    \E class_id \in ClassArgs, student_id \in StudentArgs :
    \E out \in { enroll_student(db, classes, nextId, class_id, student_id) } :
        AdminCall("enroll_student", [class_id |-> class_id, student_id |-> student_id],
                  out.db, classes, out.nextId, out.status)

ManualEnrollStudent ==
    \E student_id \in StudentArgs, class_ids \in IdLists(ClassArgs) :
    \E out \in { manual_enroll_student(db, classes, nextId, student_id, class_ids) } :
        AdminCall("manual_enroll_student",
                  [student_id |-> student_id, class_ids |-> class_ids],
                  out.db, classes, out.nextId, out.status)

BulkEnrollStudents ==
    \E class_id \in ClassArgs, student_ids \in IdLists(StudentArgs) :
    \E out \in { bulk_enroll_students(db, classes, nextId, class_id, student_ids) } :
        AdminCall("bulk_enroll_students",
                  [class_id |-> class_id, student_ids |-> student_ids],
                  out.db, classes, out.nextId, out.status)

RemoveEnrollment ==
    \E student_id \in StudentArgs, class_id \in ClassArgs :
    \E out \in { remove_enrollment(db, student_id, class_id) } :
        AdminCall("remove_enrollment", [student_id |-> student_id, class_id |-> class_id],
                  out.db, classes, nextId, out.status)

UnenrollStudent ==
    \E class_id \in ClassArgs, student_id \in StudentArgs :
    \E out \in { unenroll_student(db, class_id, student_id) } :
        AdminCall("unenroll_student", [class_id |-> class_id, student_id |-> student_id],
                  out.db, classes, nextId, out.status)

NextAdmin ==
    \/ DeleteFamily
    \/ DeleteStudent
    \/ DeleteClass
    \/ EnrollStudent
    \/ ManualEnrollStudent
    \/ BulkEnrollStudents
    \/ RemoveEnrollment
    \/ UnenrollStudent

SpecAdmin == Init /\ [][NextAdmin]_vars

----------------------------------------------------------------------------
(* Admin CRUD on families (routers/families.py) behind require_admin        *)
(* (auth.py).  FastAPI resolves the dependencies of a route before it calls  *)
(* the handler; an HTTPException raised by one of them is the response.      *)

\* the Authorization header of the request, and what the identity provider
\* does with a bearer token: no URL configured, no answer, a status other
\* than 200, or the user with the role of its metadata (none: "user").  It
\* is asked only about a well-formed header ("unasked" otherwise)
Credentials == {"missing", "malformed", "bearer"}
ProviderAnswers == {"unconfigured", "unreachable", "rejected", "norole", "user", "admin"}

\* auth.py verify_supabase_token / get_current_user
verify_supabase_token(authorization, provider) ==
    IF authorization = "missing" THEN [status |-> 401, role |-> NoneStr]
    ELSE IF authorization = "malformed" THEN [status |-> 401, role |-> NoneStr]
    ELSE IF provider = "unconfigured" THEN [status |-> 500, role |-> NoneStr]
    ELSE IF provider = "unreachable" THEN [status |-> 503, role |-> NoneStr]
    ELSE IF provider = "rejected" THEN [status |-> 401, role |-> NoneStr]
    ELSE [status |-> 200, role |-> IF provider = "norole" THEN "user" ELSE provider]

\* mutant: any authenticated user passes
require_admin_any_user(user) == user.status

\* auth.py require_admin: the status the dependencies answer with, 200 when
\* the handler is called
require_admin(user) ==
    IF user.status # 200 THEN user.status
    ELSE IF user.role # "admin" THEN 403
    ELSE 200

create_family(store, nid, family_name, emails, first_names, names) ==
    LET ng == Len(emails)
        ns == Len(first_names)
        nc == Len(names)
        clash == \E i \in 1..ng :
                    /\ emails[i] # NoneStr
                    /\ \/ \E g \in store.guardians : g.email = emails[i]
                       \/ \E j \in 1..ng : j # i /\ emails[j] = emails[i]
    IN  IF clash THEN [db |-> store, nextId |-> nid, status |-> 500]
        ELSE [db |-> [store EXCEPT
                        !.families = @ \cup { [id |-> nid, family_name |-> family_name] },
                        !.guardians = @ \cup
                            { [id |-> nid + i, family_id |-> nid, email |-> emails[i]]
                              : i \in 1..ng },
                        !.students = @ \cup
                            { [id |-> nid + ng + i, family_id |-> nid,
                               first_name |-> first_names[i]] : i \in 1..ns },
                        !.emergency_contacts = @ \cup
                            { [id |-> nid + ng + ns + i, family_id |-> nid,
                               name |-> names[i]] : i \in 1..nc }],
              nextId |-> nid + 1 + ng + ns + nc, status |-> 201]

\* data: the fields the request sets (model_dump(exclude_unset=True))
update_family(store, nid, family_id, data) ==
    IF family_id \notin Ids(store.families) THEN [db |-> store, nextId |-> nid, status |-> 404]
    ELSE [db |-> [store EXCEPT !.families =
                    { IF f.id = family_id /\ data # Absent
                      THEN [f EXCEPT !.family_name = data[1]] ELSE f : f \in @ }],
          nextId |-> nid, status |-> 200]

create_guardian(store, nid, family_id, email) ==
    IF family_id \notin Ids(store.families) THEN [db |-> store, nextId |-> nid, status |-> 404]
    ELSE IF EmailTaken(store.guardians, nid, email)
    THEN [db |-> store, nextId |-> nid, status |-> 500]
    ELSE [db |-> [store EXCEPT !.guardians =
                    @ \cup { [id |-> nid, family_id |-> family_id, email |-> email] }],
          nextId |-> nid + 1, status |-> 201]

update_guardian(store, nid, family_id, guardian_id, data) ==
    IF ~\E g \in store.guardians : g.id = guardian_id /\ g.family_id = family_id
    THEN [db |-> store, nextId |-> nid, status |-> 404]
    ELSE IF data # Absent /\ EmailTaken(store.guardians, guardian_id, data[1])
    THEN [db |-> store, nextId |-> nid, status |-> 500]
    ELSE [db |-> [store EXCEPT !.guardians =
                    { IF g.id = guardian_id /\ data # Absent
                      THEN [g EXCEPT !.email = data[1]] ELSE g : g \in @ }],
          nextId |-> nid, status |-> 200]

delete_guardian(store, nid, family_id, guardian_id) ==
    IF ~\E g \in store.guardians : g.id = guardian_id /\ g.family_id = family_id
    THEN [db |-> store, nextId |-> nid, status |-> 404]
    ELSE [db |-> [store EXCEPT !.guardians = DeleteRows(@, {guardian_id})],
          nextId |-> nid, status |-> 204]

create_student(store, nid, family_id, first_name) ==
    IF family_id \notin Ids(store.families) THEN [db |-> store, nextId |-> nid, status |-> 404]
    ELSE [db |-> [store EXCEPT !.students =
                    @ \cup { [id |-> nid, family_id |-> family_id,
                              first_name |-> first_name] }],
          nextId |-> nid + 1, status |-> 201]

update_student(store, nid, family_id, student_id, data) ==
    IF ~\E s \in store.students : s.id = student_id /\ s.family_id = family_id
    THEN [db |-> store, nextId |-> nid, status |-> 404]
    ELSE [db |-> [store EXCEPT !.students =
                    { IF s.id = student_id /\ data # Absent
                      THEN [s EXCEPT !.first_name = data[1]] ELSE s : s \in @ }],
          nextId |-> nid, status |-> 200]

create_emergency_contact(store, nid, family_id, name) ==
    IF family_id \notin Ids(store.families) THEN [db |-> store, nextId |-> nid, status |-> 404]
    ELSE [db |-> [store EXCEPT !.emergency_contacts =
                    @ \cup { [id |-> nid, family_id |-> family_id, name |-> name] }],
          nextId |-> nid + 1, status |-> 201]

update_emergency_contact(store, nid, family_id, contact_id, data) ==
    IF ~\E c \in store.emergency_contacts : c.id = contact_id /\ c.family_id = family_id
    THEN [db |-> store, nextId |-> nid, status |-> 404]
    ELSE [db |-> [store EXCEPT !.emergency_contacts =
                    { IF c.id = contact_id /\ data # Absent
                      THEN [c EXCEPT !.name = data[1]] ELSE c : c \in @ }],
          nextId |-> nid, status |-> 200]

delete_emergency_contact(store, nid, family_id, contact_id) ==
    IF ~\E c \in store.emergency_contacts : c.id = contact_id /\ c.family_id = family_id
    THEN [db |-> store, nextId |-> nid, status |-> 404]
    ELSE [db |-> [store EXCEPT !.emergency_contacts = DeleteRows(@, {contact_id})],
          nextId |-> nid, status |-> 204]

\* the body of the handler of route `op` on the path and body values `args`
FamilyHandler(op, store, nid, args) ==
    CASE op = "create_family" ->
            create_family(store, nid, args[1], args[2], args[3], args[4])
      [] op = "update_family" -> update_family(store, nid, args[1], args[2])
      [] op = "delete_family" ->
            [db |-> delete_family(store, args[1]).db, nextId |-> nid,
             status |-> delete_family(store, args[1]).status]
      [] op = "create_guardian" -> create_guardian(store, nid, args[1], args[2])
      [] op = "update_guardian" -> update_guardian(store, nid, args[1], args[2], args[3])
      [] op = "delete_guardian" -> delete_guardian(store, nid, args[1], args[2])
      [] op = "create_student" -> create_student(store, nid, args[1], args[2])
      [] op = "update_student" -> update_student(store, nid, args[1], args[2], args[3])
      [] op = "delete_student" ->
            [db |-> delete_student(store, args[1], args[2]).db, nextId |-> nid,
             status |-> delete_student(store, args[1], args[2]).status]
      [] op = "create_emergency_contact" ->
            create_emergency_contact(store, nid, args[1], args[2])
      [] op = "update_emergency_contact" ->
            update_emergency_contact(store, nid, args[1], args[2], args[3])
      [] op = "delete_emergency_contact" ->
            delete_emergency_contact(store, nid, args[1], args[2])

\* one request to a route declared with Depends(require_admin): the
\* dependencies first, the handler only when they pass
FamilyCall(op, args) ==
    /\ nFamilyCalls < MaxFamilyCalls
    /\ nFamilyCalls' = nFamilyCalls + 1
    /\ \E authorization \in Credentials :
       \E provider \in IF authorization = "bearer" THEN ProviderAnswers ELSE {"unasked"} :
       \E allowed \in { require_admin(verify_supabase_token(authorization, provider)) } :
       \E out \in { IF allowed = 200 THEN FamilyHandler(op, db, nextId, args)
                    ELSE [db |-> db, nextId |-> nextId, status |-> allowed] } :
          /\ db' = out.db
          /\ nextId' = out.nextId
          /\ flast' = [op |-> op, args |-> args, status |-> out.status, pre |-> db,
                       authorization |-> authorization, provider |-> provider]
    /\ UNCHANGED <<classes, years, nextYearId, nSubmitted, last, ylast, nAdmin, alast,
                   probe, yearTxn, submitTxn, nCommits>>

GuardianArgs == Ids(db.guardians) \cup {nextId}
ContactArgs == Ids(db.emergency_contacts) \cup {nextId}
Unset(values) == {Absent} \cup { << v >> : v \in values }
UpTo1(values) == { << >> } \cup { << v >> : v \in values }

CreateFamily ==
    \E family_name \in FamilyNames, emails \in UpTo1(GuardianEmails),
       first_names \in UpTo1(StudentNames), names \in UpTo1(ContactNames) :
        FamilyCall("create_family", <<family_name, emails, first_names, names>>)

UpdateFamily ==
    \E family_id \in FamilyArgs, data \in Unset(FamilyNames) :
        FamilyCall("update_family", <<family_id, data>>)

DeleteFamilyRoute ==
    \E family_id \in FamilyArgs : FamilyCall("delete_family", <<family_id>>)

CreateGuardian ==
    \E family_id \in FamilyArgs, email \in GuardianEmails \cup {NoneStr} :
        FamilyCall("create_guardian", <<family_id, email>>)

UpdateGuardian ==
    \E family_id \in FamilyArgs, guardian_id \in GuardianArgs,
       data \in Unset(GuardianEmails) :
        FamilyCall("update_guardian", <<family_id, guardian_id, data>>)

DeleteGuardian ==
    \E family_id \in FamilyArgs, guardian_id \in GuardianArgs :
        FamilyCall("delete_guardian", <<family_id, guardian_id>>)

CreateStudent ==
    \E family_id \in FamilyArgs, first_name \in StudentNames :
        FamilyCall("create_student", <<family_id, first_name>>)

UpdateStudent ==
    \E family_id \in FamilyArgs, student_id \in StudentArgs,
       data \in Unset(StudentNames) :
        FamilyCall("update_student", <<family_id, student_id, data>>)

DeleteStudentRoute ==
    \E family_id \in FamilyArgs, student_id \in StudentArgs :
        FamilyCall("delete_student", <<family_id, student_id>>)

CreateEmergencyContact ==
    \E family_id \in FamilyArgs, name \in ContactNames :
        FamilyCall("create_emergency_contact", <<family_id, name>>)

UpdateEmergencyContact ==
    \E family_id \in FamilyArgs, contact_id \in ContactArgs,
       data \in Unset(ContactNames) :
        FamilyCall("update_emergency_contact", <<family_id, contact_id, data>>)

DeleteEmergencyContact ==
    \E family_id \in FamilyArgs, contact_id \in ContactArgs :
        FamilyCall("delete_emergency_contact", <<family_id, contact_id>>)

NextFamilies ==
    \/ CreateFamily
    \/ UpdateFamily
    \/ DeleteFamilyRoute
    \/ CreateGuardian
    \/ UpdateGuardian
    \/ DeleteGuardian
    \/ CreateStudent
    \/ UpdateStudent
    \/ DeleteStudentRoute
    \/ CreateEmergencyContact
    \/ UpdateEmergencyContact
    \/ DeleteEmergencyContact

SpecFamilies == Init /\ [][NextFamilies]_vars

\* str() of a natural number
RECURSIVE IntToStr(_)
IntToStr(n) ==
    IF n < 10 THEN << DigitChars[n + 1] >>
    ELSE IntToStr(n \div 10) \o << DigitChars[(n % 10) + 1] >>

\* mutant: the ceiling is one level higher
get_next_class_name_ceiling_10(class_name) ==
    LET level == parse_class_level(class_name)
        t == Strip(class_name)
    IN  IF level = Absent \/ level[1] >= 10 THEN Absent
        ELSE << SubSeq(t, 1, Len(t) - TrailingDigits(t)) \o IntToStr(level[1] + 1) >>

\* enrollment_portal.py get_next_class_name; re.sub(r'\d+$', str(level + 1), ...)
\* puts str(level + 1) in the place of the digits at the end of the stripped name
get_next_class_name(class_name) ==
    LET level == parse_class_level(class_name)
        t == Strip(class_name)
    IN  IF level = Absent \/ level[1] >= 9 THEN Absent
        ELSE << SubSeq(t, 1, Len(t) - TrailingDigits(t)) \o IntToStr(level[1] + 1) >>

----------------------------------------------------------------------------
(* Helper functions and read-only queries, applied to arguments of bounded *)
(* sets.  An Optional[int] or Optional[date] is Absent (None) or <<v>>.    *)

\* date.__gt__
DateAfter(a, b) ==
    \/ a.year > b.year
    \/ a.year = b.year /\ a.month > b.month
    \/ a.year = b.year /\ a.month = b.month /\ a.day > b.day

\* Python truthiness of an Optional[int]: None and 0 are falsy
IntTruthy(v) == v # Absent /\ v[1] # 0

\* mutant: a stored end_year of 0 counts as a year
compute_status_zero_is_a_year(year, today) ==
    IF year.is_active THEN "active"
    ELSE IF year.transition_date # Absent /\ DateAfter(year.transition_date[1], today)
    THEN "upcoming"
    ELSE IF year.end_year # Absent /\ year.end_year[1] < today.year THEN "archived"
    ELSE "upcoming"

\* school_years.py compute_school_year_status; today = date.today()
compute_school_year_status(year, today) ==
    IF year.is_active THEN "active"
    ELSE IF year.transition_date # Absent /\ DateAfter(year.transition_date[1], today)
    THEN "upcoming"
    ELSE IF IntTruthy(year.end_year) /\ year.end_year[1] < today.year THEN "archived"
    ELSE IF IntTruthy(year.start_year) /\ year.start_year[1] > today.year THEN "upcoming"
    ELSE "upcoming"

\* date.today() at the call
Todays == { Date(2025, 7, 1), Date(2026, 1, 15) }

\* start_year / end_year: NULL, the 0 that parse_year_label stores for a name
\* it cannot parse, and calendar years around today
YearNumbers == { Absent, <<0>>, <<2024>>, <<2025>>, <<2026>>, <<2027>> }

TransitionDates ==
    { Absent, <<Date(2024, 7, 1)>>, <<Date(2025, 6, 30)>>, <<Date(2025, 7, 1)>>,
      <<Date(2025, 7, 2)>>, <<Date(2026, 7, 1)>> }

\* the record of one application: the function, its arguments, what it returned
Probe(fn, args, result) == [fn |-> fn, args |-> args, result |-> result]

\* a helper or a read-only query writes nothing
ReadOnly ==
    UNCHANGED <<db, classes, years, nextId, nextYearId, nSubmitted, last, ylast,
                nAdmin, alast, yearTxn, submitTxn, nCommits, nFamilyCalls, flast>>

\* a behaviour applies one helper once: what a helper returns depends on its
\* arguments alone
Unprobed == probe.fn = "none"

ComputeSchoolYearStatus ==
    /\ Unprobed
    /\ \E is_active \in BOOLEAN, transition_date \in TransitionDates,
       start_year \in YearNumbers, end_year \in YearNumbers, today \in Todays :
        LET year == [is_active |-> is_active, transition_date |-> transition_date,
                     end_year |-> end_year, start_year |-> start_year]
        IN  /\ probe' = Probe("compute_school_year_status",
                               [year |-> year, today |-> today],
                               compute_school_year_status(year, today))
            /\ ReadOnly

\* ORDER BY start_year DESC, id DESC as PostgreSQL sorts it: in descending
\* order a NULL start_year comes before every number
SortsBefore(y, z) ==
    \/ y.start_year = Absent /\ z.start_year # Absent
    \/ y.start_year = Absent /\ z.start_year = Absent /\ y.id > z.id
    \/ /\ y.start_year # Absent /\ z.start_year # Absent
       /\ \/ y.start_year[1] > z.start_year[1]
          \/ y.start_year[1] = z.start_year[1] /\ y.id > z.id

\* .order_by(desc(start_year), desc(id)).limit(1) over a non-empty set of rows
FirstInOrder(rows) == CHOOSE y \in rows : \A z \in rows : z = y \/ SortsBefore(y, z)

\* enrollment_portal.py get_active_or_latest_academic_year
get_active_or_latest_academic_year(rows) ==
    LET active == { y \in rows : y.is_active }
    IN  IF active # {} THEN [status |-> 200, year_id |-> FirstInOrder(active).id]
        ELSE IF rows # {} THEN [status |-> 200, year_id |-> FirstInOrder(rows).id]
        ELSE [status |-> 404, year_id |-> Null]

\* most rows of an academic_years table handed to a query
MaxProbeYears == 3

\* start_year of a row: NULL (a year made by seed.py) or a calendar year
ProbeStartYears == { Absent, <<2025>>, <<2026>> }

\* the tables: each id is missing or names one row
ProbeYearTables ==
    LET shapes == [1..MaxProbeYears ->
                     {Absent} \cup { <<[is_active |-> a, start_year |-> s]>> :
                                       s \in ProbeStartYears, a \in BOOLEAN }]
    IN  { { [id |-> i, is_active |-> f[i][1].is_active,
             start_year |-> f[i][1].start_year] : i \in { j \in 1..MaxProbeYears : f[j] # Absent } }
          : f \in shapes }

GetActiveOrLatestAcademicYear ==
    /\ Unprobed
    /\ \E rows \in ProbeYearTables :
        /\ probe' = Probe("get_active_or_latest_academic_year", [rows |-> rows],
                           get_active_or_latest_academic_year(rows))
        /\ ReadOnly

\* longest class name built from ProbeChars
MaxNameLen == 4

\* a letter, the blank, and digits
ProbeChars == {"a", " ", "0", "1", "2", "8", "9"}

GiaoLy == <<"G", "i", "a", "o", " ", "L", "y">>

\* class names handed to parse_class_level
ProbeClassNames ==
    UNION { [1..n -> ProbeChars] : n \in 0..MaxNameLen }
    \cup {GL3, GiaoLy, VN2, AuNhi,
          <<"V", "i", "e", "t", " ", "N", "g", "u", " ", "5">>,
          <<"V", "i", "e", "t", " ", "N", "g", "u", " ", "9">>}

ParseClassLevel ==
    /\ Unprobed
    /\ \E class_name \in ProbeClassNames :
        /\ probe' = Probe("parse_class_level", <<class_name>>,
                           parse_class_level(class_name))
        /\ ReadOnly

GetNextClassName ==
    /\ Unprobed
    /\ \E class_name \in ProbeClassNames :
        /\ probe' = Probe("get_next_class_name", <<class_name>>,
                           get_next_class_name(class_name))
        /\ ReadOnly

\* school_years.py check_transition_needed: the newest year that is not
\* active and has a transition date (ORDER BY start_year DESC LIMIT 1; rows of
\* one start_year come in any order), suggested once its date has come.  The
\* set of the answers the query can give
check_transition_needed(rows, today) ==
    LET candidates == { y \in rows : ~y.is_active /\ y.transition_date # Absent }
        Precedes(y, z) ==
            \/ y.start_year = Absent
            \/ z.start_year # Absent /\ y.start_year[1] >= z.start_year[1]
        first == { y \in candidates : \A z \in candidates : Precedes(y, z) }
    IN  IF candidates = {}
        THEN { [should_transition |-> FALSE, year_id |-> Null] }
        ELSE { [should_transition |-> ~DateAfter(upcoming_year.transition_date[1], today),
                year_id |-> upcoming_year.id] : upcoming_year \in first }

CheckTransitionNeeded ==
    /\ \E today \in Todays :
       \E answer \in check_transition_needed(years, today) :
        YearCall("check", answer.year_id, << answer.should_transition >>,
                 [rows |-> years, status |-> 200])
    /\ UNCHANGED nextYearId

\* years are created, transitions are made and checked for
NextCheck ==
    \/ CreateSchoolYear
    \/ TransitionSchoolYear
    \/ CheckTransitionNeeded

SpecCheck == Init /\ [][NextCheck]_vars

\* enrollment_portal.py get_suggested_enrollments: the status and, for every
\* student of the family, the ids of the suggested classes
get_suggested_enrollments(rows, cls, store, enrollments, family_id) ==
    LET current_year == get_active_or_latest_academic_year(rows)
        current_classes == { c \in cls : c.academic_year_id = current_year.year_id }
        last_year_enrollments(student) ==
            { e \in enrollments :
                /\ e.student_id = student.id
                /\ \E c \in cls : c.id = e.class_id
                                  /\ c.academic_year_id # current_year.year_id }
        suggested(student) ==
            { c.id : c \in { n \in current_classes :
                \E e \in last_year_enrollments(student) :
                    LET old_class == Row(cls, e.class_id) IN
                    /\ parse_class_level(old_class.name) # << 9 >>
                    /\ get_next_class_name(old_class.name) = << n.name >> } }
    IN  IF current_year.status # 200
        THEN [status |-> 404, suggested_enrollments |-> {}]
        ELSE IF family_id \notin Ids(store.families)
        THEN [status |-> 404, suggested_enrollments |-> {}]
        ELSE [status |-> 200,
              suggested_enrollments |->
                  { << student.id, suggested(student) >> :
                      student \in { s \in store.students : s.family_id = family_id } }]

GL8 == GiaoLy \o <<" ", "8">>
GL9 == GiaoLy \o <<" ", "9">>

\* three school years, 2024-2025 to 2026-2027, with at most one active
SuggestYears ==
    { { [id |-> i, is_active |-> (i = active), start_year |-> << 2023 + i >>]
        : i \in 1..3 } : active \in 0..3 }

\* classes of the three years
SuggestClasses ==
    { [id |-> 31, name |-> GL3, program_id |-> 1, academic_year_id |-> 1],
      [id |-> 32, name |-> GL4, program_id |-> 1, academic_year_id |-> 1],
      [id |-> 33, name |-> GL3, program_id |-> 1, academic_year_id |-> 2],
      [id |-> 34, name |-> GL8, program_id |-> 1, academic_year_id |-> 2],
      [id |-> 35, name |-> GL9, program_id |-> 1, academic_year_id |-> 2],
      [id |-> 36, name |-> GL4, program_id |-> 1, academic_year_id |-> 3],
      [id |-> 37, name |-> GL9, program_id |-> 1, academic_year_id |-> 3],
      [id |-> 38, name |-> AuNhi, program_id |-> 3, academic_year_id |-> 3] }

\* student 7 of family 1 enrolled in up to two of the classes
SuggestEnrollments ==
    { { [id |-> 40 + c, student_id |-> 7, class_id |-> c] : c \in held }
      : held \in { h \in SUBSET Ids(SuggestClasses) : Cardinality(h) <= 2 } }

GetSuggestedEnrollments ==
    /\ Unprobed
    /\ \E rows \in SuggestYears, enrollments \in SuggestEnrollments,
          family_id \in FamilyArgs :
        /\ probe' = Probe("get_suggested_enrollments",
                          <<rows, enrollments, family_id>>,
                          get_suggested_enrollments(rows, SuggestClasses, db,
                                                    enrollments, family_id))
        /\ ReadOnly

NextPure ==
    \/ ComputeSchoolYearStatus
    \/ GetActiveOrLatestAcademicYear
    \/ ParseClassLevel
    \/ GetNextClassName
    \/ GetSuggestedEnrollments

SpecPure == Init /\ [][NextPure]_vars



----------------------------------------------------------------------------
(* Two transition_school_year requests in flight (school_years.py 415-440). *)
(* PostgreSQL runs each session READ COMMITTED: a SELECT sees the rows      *)
(* committed when it runs.  The handler changes attributes of the rows it   *)
(* loaded; the flush inside commit() sends the UPDATEs.                     *)

\* the UPDATE the unit of work sends for a loaded row whose attributes were set:
\* SET the columns whose value differs from the loaded one, WHERE id = loaded.id
FlushYear(rows, loaded, is_active, is_current) ==
    { IF y.id = loaded.id
      THEN [y EXCEPT !.is_active = IF loaded.is_active # is_active THEN is_active ELSE @,
                     !.is_current = IF loaded.is_current # is_current THEN is_current ELSE @]
      ELSE y : y \in rows }

\* mutant: the commit clears the flags of every other year of the table
DeactivateEveryOther(rows, old_active_year, new_year) ==
    { IF y.id # new_year.id THEN [y EXCEPT !.is_active = FALSE, !.is_current = FALSE]
      ELSE y : y \in rows }

\* lines 431-434: the year the session loaded as active loses its flags
DeactivateOld(rows, old_active_year, new_year) ==
    IF old_active_year # {} /\ Only(old_active_year).id # new_year.id
    THEN FlushYear(rows, Only(old_active_year), FALSE, FALSE)
    ELSE rows

\* lines 416-422: select the target year
TxnSelectNewYear(p) ==
    /\ yearTxn[p].pc = "idle"
    /\ \E target \in YearIdArgs :
        \E found \in { { y \in years : y.id = target } } :
          yearTxn' = [yearTxn EXCEPT ![p] =
              IF found = {}
              THEN [@ EXCEPT !.pc = "done", !.target = target, !.status = 404]
              ELSE [@ EXCEPT !.pc = "selected", !.target = target, !.new_year = found]]
    /\ UNCHANGED <<db, classes, years, nextId, nextYearId, nSubmitted, last, ylast,
                   nAdmin, alast, probe, submitTxn, nCommits, nFamilyCalls, flast>>

\* lines 424-429: select the active year; a row the session already holds keeps
\* the attributes it was loaded with
TxnSelectActive(p) ==
    /\ yearTxn[p].pc = "selected"
    /\ \E active \in { ActiveYears(years) }, new_year \in yearTxn[p].new_year :
          yearTxn' = [yearTxn EXCEPT ![p] =
              IF Cardinality(active) > 1
              THEN [@ EXCEPT !.pc = "done", !.status = 500]
              ELSE [@ EXCEPT !.pc = "read", !.read = nCommits,
                             !.old_active_year =
                                 { IF y.id = new_year.id THEN new_year ELSE y : y \in active }]]
    /\ UNCHANGED <<db, classes, years, nextId, nextYearId, nSubmitted, last, ylast,
                   nAdmin, alast, probe, submitTxn, nCommits, nFamilyCalls, flast>>

\* lines 431-440: set the flags and commit
TxnCommit(p) ==
    /\ yearTxn[p].pc = "read"
    /\ \E new_year \in yearTxn[p].new_year :
          years' = FlushYear(DeactivateOld(years, yearTxn[p].old_active_year, new_year),
                             new_year, TRUE, TRUE)
    /\ nCommits' = nCommits + 1
    /\ yearTxn' = [yearTxn EXCEPT ![p].pc = "done", ![p].status = 200,
                                  ![p].committed = nCommits + 1]
    /\ UNCHANGED <<db, classes, nextId, nextYearId, nSubmitted, last, ylast,
                   nAdmin, alast, probe, submitTxn, nFamilyCalls, flast>>

\* calls served one after the other before the two requests arrive
YearsBefore ==
    /\ nCommits = 0
    /\ \A p \in Procs : yearTxn[p].pc = "idle"
    /\ (CreateSchoolYear \/ TransitionSchoolYear)

NextTransitions ==
    \/ YearsBefore
    \/ \E p \in Procs : TxnSelectNewYear(p)
    \/ \E p \in Procs : TxnSelectActive(p)
    \/ \E p \in Procs : TxnCommit(p)

SpecTransitions == Init /\ [][NextTransitions]_vars

----------------------------------------------------------------------------
(* Two submit_enrollment requests in flight (routers/enrollment_portal.py,   *)
(* database.py).  Each request runs on a session of its own (get_db); the     *)
(* handler's statements see the rows committed when they run and its writes   *)
(* stay private to the session until `await db.commit()`.  A request is two   *)
(* steps here: the handler's work up to the commit, then the commit.          *)

TableNames == {"families", "guardians", "students", "emergency_contacts", "enrollments"}

\* the rows of `a` a session that turned `a` into `b` has updated or deleted
WrittenIds(a, b) == Ids(a \ b)

\* the committed table `c` after the commit of a session that read `a` and
\* holds `b`: its DELETEs and UPDATEs go by primary key, its INSERTs are added
MergeTable(c, a, b) == { r \in c : r.id \notin WrittenIds(a, b) } \cup (b \ a)

\* a statement of one session would wait for the commit of the other: both
\* write one row, both claim one guardians.email (unique), or one inserts an
\* enrollment of a student the other deletes
LockWait(a_pre, a_post, b_pre, b_post) ==
    LET Emails(pre, post) == { g.email : g \in post.guardians \ pre.guardians } \ {NoneStr}
        Gone(pre, post) == Ids(pre.students) \ Ids(post.students)
        Added(pre, post) == { e.student_id : e \in post.enrollments \ pre.enrollments }
    IN  \/ \E t \in TableNames :
              WrittenIds(a_pre[t], a_post[t]) \cap WrittenIds(b_pre[t], b_post[t]) # {}
        \/ Emails(a_pre, a_post) \cap Emails(b_pre, b_post) # {}
        \/ Added(a_pre, a_post) \cap Gone(b_pre, b_post) # {}
        \/ Added(b_pre, b_post) \cap Gone(a_pre, a_post) # {}

\* the family of the two requests and the snapshots it submits: its guardian,
\* student and contact as stored or edited, with or without one more guardian
\* and one more student, with or without a class selection
RaceFamily == (CHOOSE f \in InitStore.families : f.family_name = "Tran").id

RaceRequests ==
    { [family_id |-> RaceFamily, family_name |-> family_name,
       guardians |-> << [id |-> StrOf(6), email |-> "e3"] >> \o more_guardians,
       students |-> << [id |-> StrOf(9), first_name |-> first_name] >> \o more_students,
       emergency_contacts |-> << [id |-> StrOf(11), name |-> "Co"] >>,
       class_selections |-> class_selections,
       academic_year_id |-> academic_year_id] :
        family_name \in {"Tran", "Le"},
        first_name \in {"Chi", "Dung"},
        more_guardians \in { << >>, << [id |-> NoIdStr, email |-> "e4"] >> },
        more_students \in { << >>, << [id |-> TmpStr(1), first_name |-> "An"] >> },
        class_selections \in { << >>, << Selection(StrOf(9), <<3, Null>>) >>,
                               << Selection(TmpStr(1), <<3, Null>>) >> },
        academic_year_id \in Ids(InitYears) }

\* the handler of request p up to its commit, on the rows committed now.  The
\* interleavings kept are those in which no statement waits for the other
\* session
SubmitWork(p) ==
    /\ submitTxn[p].pc = "idle"
    /\ \E request \in RaceRequests :
       \E gl \in LevelDicts({ c \in CurrentYearClasses(classes, request.academic_year_id) :
                                IsGiaoLy(c) }),
          vn \in LevelDicts({ c \in CurrentYearClasses(classes, request.academic_year_id) :
                                IsVietNgu(c) }) :
       \E out \in { submit_enrollment(db, nextId, classes, request, "none", gl, vn) } :
          /\ \A q \in Procs \ {p} :
                submitTxn[q].pc = "worked"
                    => ~LockWait(submitTxn[q].pre, submitTxn[q].post, db, out.db)
          /\ nextId' = out.nextId
          /\ submitTxn' = [submitTxn EXCEPT ![p] =
                 [pc |-> IF out.resp.status = 200 THEN "worked" ELSE "done",
                  request |-> request, pre |-> db, post |-> out.db,
                  status |-> IF out.resp.status = 200 THEN Null ELSE out.resp.status,
                  read |-> nCommits, committed |-> Null]]
    /\ UNCHANGED <<db, classes, years, nextYearId, nSubmitted, last, ylast,
                   nAdmin, alast, probe, yearTxn, nCommits, nFamilyCalls, flast>>

\* await db.commit() of request p
SubmitCommit(p) ==
    /\ submitTxn[p].pc = "worked"
    /\ db' = [families |-> MergeTable(db.families, submitTxn[p].pre.families,
                                      submitTxn[p].post.families),
              guardians |-> MergeTable(db.guardians, submitTxn[p].pre.guardians,
                                       submitTxn[p].post.guardians),
              students |-> MergeTable(db.students, submitTxn[p].pre.students,
                                      submitTxn[p].post.students),
              emergency_contacts |-> MergeTable(db.emergency_contacts,
                                                submitTxn[p].pre.emergency_contacts,
                                                submitTxn[p].post.emergency_contacts),
              enrollments |-> MergeTable(db.enrollments, submitTxn[p].pre.enrollments,
                                         submitTxn[p].post.enrollments)]
    /\ nCommits' = nCommits + 1
    /\ submitTxn' = [submitTxn EXCEPT ![p].pc = "done", ![p].status = 200,
                                      ![p].committed = nCommits + 1]
    /\ UNCHANGED <<classes, years, nextId, nextYearId, nSubmitted, last, ylast,
                   nAdmin, alast, probe, yearTxn, nFamilyCalls, flast>>

NextRace ==
    \/ \E p \in Procs : SubmitWork(p)
    \/ \E p \in Procs : SubmitCommit(p)

SpecRace == Init /\ [][NextRace]_vars

----------------------------------------------------------------------------
(* Vocabulary of the properties, over the recorded last call *)

Called == last.op # "none"
Succeeded == Called /\ last.resp.status = 200
Req == last.request

\* the family the call was for: the one named, or the one it created
TargetFamily == IF Req.family_id # Null THEN Req.family_id ELSE last.resp.family_id

\* the id string is a well-formed UUID, and the UUID it denotes
IsUuidStr(id_str) == id_str.k \in {"uuid", "UUID"}
UuidOf(id_str) == id_str.v

OwnIds(rows, family) == { r.id : r \in { x \in rows : x.family_id = family } }

AllIds(store) ==
    Ids(store.families) \cup Ids(store.guardians) \cup Ids(store.students)
    \cup Ids(store.emergency_contacts) \cup Ids(store.enrollments)

\* item i names an existing child of the family
Matches(items, i, existing) ==
    IsUuidStr(items[i].id) /\ UuidOf(items[i].id) \in existing

\* the last item that names the child `id`
LastFor(items, id, existing) ==
    CHOOSE i \in 1..Len(items) :
        /\ Matches(items, i, existing) /\ UuidOf(items[i].id) = id
        /\ \A j \in (i + 1)..Len(items) :
              ~(Matches(items, j, existing) /\ UuidOf(items[j].id) = id)

GuardianField(r) == r.email
StudentField(r) == r.first_name
ContactField(r) == r.name

\* The family's rows after the call are exactly: every existing child named by
\* an item, carrying that item's fields; one new row per other item, carrying
\* its fields; and no existing child that no item names.
Reconciled(pre, post, items, ids, family, Field(_)) ==
    LET existing == OwnIds(pre, family)
        matched == { i \in 1..Len(items) : Matches(items, i, existing) }
        others == (1..Len(items)) \ matched
    IN  /\ Len(ids) = Len(items)
        /\ \A i \in matched :
              /\ ids[i] = UuidOf(items[i].id)
              /\ \E r \in post :
                    /\ r.id = ids[i] /\ r.family_id = family
                    /\ Field(r) = Field(items[LastFor(items, ids[i], existing)])
        /\ \A i \in others :
              /\ ids[i] \notin Ids(pre)
              /\ \A j \in others : ids[i] = ids[j] => i = j
              /\ \E r \in post :
                    r.id = ids[i] /\ r.family_id = family /\ Field(r) = Field(items[i])
        /\ OwnIds(post, family) = { ids[i] : i \in 1..Len(items) }
        /\ \A r \in post, q \in post : r.id = q.id => r = q

----------------------------------------------------------------------------
(* C1: school years.  After any sequence of create / update / transition / *)
(* delete calls run one after the other from a table with no active year,  *)
(* at most one academic year has is_active = TRUE.                         *)
C1_AtMostOneActiveYear == Cardinality(ActiveYears(years)) <= 1

\* a transition has just moved the flag from one year to another
C1_Witness ==
    /\ ylast.op = "transition" /\ ylast.status = 200
    /\ ylast.previous_active_year_id # Null
    /\ ylast.previous_active_year_id # ylast.year_id
    /\ Ids(ActiveYears(years)) = {ylast.year_id}

(* C2: a successful submit_enrollment on an existing family reconciles     *)
(* guardians, students and emergency contacts independently: an item whose *)
(* id parses to one of the family's existing ids of that type updates that *)
(* row in place, every other item yields exactly one new row of the        *)
(* family, and every existing row that no item names is deleted.           *)
C2_ReconciliationComplete ==
    (Succeeded /\ Req.family_id # Null) =>
        /\ Reconciled(last.pre.guardians, db.guardians, Req.guardians,
                      last.ids.guardians, Req.family_id, GuardianField)
        /\ Reconciled(last.pre.students, db.students, Req.students,
                      last.ids.students, Req.family_id, StudentField)
        /\ Reconciled(last.pre.emergency_contacts, db.emergency_contacts,
                      Req.emergency_contacts, last.ids.emergency_contacts,
                      Req.family_id, ContactField)

\* existing {A, B, C}, an update for A and one id-less item: exactly
\* {A updated, one new row} remains
C2_Witness ==
    /\ Succeeded /\ Req.family_id # Null
    /\ Cardinality(OwnIds(last.pre.guardians, Req.family_id)) = 3
    /\ Len(Req.guardians) = 2
    /\ Matches(Req.guardians, 1, OwnIds(last.pre.guardians, Req.family_id))
    /\ Req.guardians[2].id = NoIdStr
    /\ Row(last.pre.guardians, UuidOf(Req.guardians[1].id)).email # Req.guardians[1].email
    /\ Row(db.guardians, UuidOf(Req.guardians[1].id)).email = Req.guardians[1].email
    /\ Cardinality(OwnIds(db.guardians, Req.family_id)) = 2
    /\ Cardinality(OwnIds(db.guardians, Req.family_id)
                   \ OwnIds(last.pre.guardians, Req.family_id)) = 1

(* C3: resubmitting the same snapshot with the family id and every durable *)
(* guardian / student / emergency-contact id echoed back inserts nothing   *)
(* and deletes nothing: the three tables are what they were after the      *)
(* first submission, row for row.                                          *)
C3_ResubmissionIdempotent ==
    last.op = "echo" =>
        /\ db.guardians = last.pre.guardians
        /\ db.students = last.pre.students
        /\ db.emergency_contacts = last.pre.emergency_contacts

\* a successful resubmission of a snapshot that holds a child of each kind
\* handled by an insert the first time
C3_Witness ==
    /\ last.op = "echo" /\ last.resp.status = 200
    /\ Len(Req.students) >= 1 /\ Len(Req.guardians) >= 1
    /\ \E i \in 1..Len(Req.students) :
          UuidOf(Req.students[i].id) \notin Ids(InitStore.students)
    /\ db.students = last.pre.students

(* C4: after two successive successful submissions for the same family and *)
(* the same academic year Y, the second echoing the students' durable ids, *)
(* the enrollments of the family's students in classes of Y are exactly    *)
(* those the second submission created (whatever levels the first named),  *)
(* and every enrollment in a class of another year is unchanged.           *)
YearOfClass(class_id) == Row(classes, class_id).academic_year_id

InYear(enrollments, year_id) ==
    { e \in enrollments : YearOfClass(e.class_id) = year_id }

C4_ReplacePerYear ==
    (last.op = "echo" /\ last.resp.status = 200) =>
        LET family_students == OwnIds(db.students, TargetFamily)
            created == SeqToSet(last.resp.enrollment_ids)
        IN  /\ { e.id : e \in { x \in InYear(db.enrollments, Req.academic_year_id) :
                                  x.student_id \in family_students } }
               = { e.id : e \in { x \in db.enrollments :
                                  x.id \in created /\ x.student_id \in family_students } }
            /\ db.enrollments \ InYear(db.enrollments, Req.academic_year_id)
               = last.pre.enrollments \ InYear(last.pre.enrollments, Req.academic_year_id)

\* the first submission enrolled a student in one class of Y, the second names
\* another level: only the second class remains, the other year is untouched
C4_Witness ==
    /\ last.op = "echo" /\ last.resp.status = 200
    /\ Len(last.resp.enrollment_ids) = 1
    /\ \E old \in InYear(last.pre.enrollments, Req.academic_year_id) :
          /\ old.student_id \in OwnIds(db.students, TargetFamily)
          /\ old.id \notin Ids(InitStore.enrollments)
          /\ old.id \notin Ids(db.enrollments)
          /\ \E new \in db.enrollments :
                /\ new.id = last.resp.enrollment_ids[1]
                /\ new.student_id = old.student_id
                /\ new.class_id # old.class_id
    /\ \E e \in db.enrollments :
          /\ e.student_id \in OwnIds(db.students, TargetFamily)
          /\ YearOfClass(e.class_id) # Req.academic_year_id

(* C5: when any step of submit_enrollment raises after the family has been *)
(* resolved, the transaction is rolled back: families, guardians, students,*)
(* emergency contacts and enrollments are exactly those before the call.   *)
C5_FailureRollsBack ==
    (Called /\ last.resp.status # 200) => db = last.pre

\* the commit itself fails after a family was created and a student inserted
C5_Witness ==
    /\ Called /\ last.fault = "commit" /\ last.resp.status = 500
    /\ Req.family_id = Null
    /\ Len(Req.students) >= 1 /\ Len(last.ids.students) >= 1
    /\ Len(Req.class_selections) >= 1
    /\ db = last.pre


(* C6: a new family (no family id), one student entry, one class selection *)
(* {student_id: "new-1", giao_ly_level: 3} and a target year with one Giao *)
(* Ly class named "Giao Ly 3": the call returns success with exactly one   *)
(* enrollment id, and that enrollment links the new student's generated id *)
(* to that class.  C6_Scenario(id_str) is the scenario with the student    *)
(* entry carrying id_str.                                                  *)
GiaoLy3Classes(year_id) ==
    { c \in CurrentYearClasses(classes, year_id) : IsGiaoLy(c) /\ c.name = GL3 }

C6_Scenario(id_str) ==
    /\ last.op = "submit" /\ last.fault = "none"
    /\ Req.family_id = Null
    /\ Req.guardians = << >> /\ Req.emergency_contacts = << >>
    /\ Len(Req.students) = 1 /\ Req.students[1].id = id_str
    /\ Req.class_selections = << Selection(TmpStr(1), <<3, Null>>) >>
    /\ Cardinality(GiaoLy3Classes(Req.academic_year_id)) = 1

C6_Outcome ==
    /\ last.resp.status = 200 /\ last.resp.success
    /\ Len(last.resp.enrollment_ids) = 1
    /\ Len(last.ids.students) = 1
    /\ last.ids.students[1] \notin AllIds(last.pre)
    /\ last.ids.students[1] \in OwnIds(db.students, last.resp.family_id)
    /\ \E e \in db.enrollments :
          /\ e.id = last.resp.enrollment_ids[1]
          /\ e.student_id = last.ids.students[1]
          /\ e.class_id \in Ids(GiaoLy3Classes(Req.academic_year_id))

\* the claim as written: the student entry carries no id
C6_Original == C6_Scenario(NoIdStr) => C6_Outcome

\* the claim as amended: the student entry carries the client id "new-1"
C6_NewStudentEnrolled == C6_Scenario(TmpStr(1)) => C6_Outcome

C6_Witness == C6_Scenario(TmpStr(1)) /\ C6_Outcome

(* C7: a class selection whose student_id resolves to no persisted student *)
(* of the submission (not in the client-id map, and unparseable or naming  *)
(* no student that remains), or whose level has no class in the target     *)
(* year, is skipped without error: the call still succeeds and no          *)
(* enrollment is created for it.                                           *)
PersistedStudents ==
    { r.id : r \in { x \in last.pre.students : x.family_id # TargetFamily } }
    \cup SeqToSet(last.ids.students)

Unresolvable(sel) ==
    /\ MapGet(last.student_id_map, sel.student_id) = Null
    /\ ~IsUuidStr(sel.student_id) \/ UuidOf(sel.student_id) \notin PersistedStudents

\* the call meets no other cause of failure: no store fault, a family that
\* exists (or none named), no guardian to collide on email
NothingElseFails ==
    /\ Called /\ last.fault = "none"
    /\ Req.family_id # Null => Req.family_id \in Ids(last.pre.families)
    /\ Req.guardians = << >>

C7_UnresolvableSelectionSkipped ==
    (NothingElseFails
     /\ \E i \in 1..Len(Req.class_selections) : Unresolvable(Req.class_selections[i]))
    => /\ last.resp.status = 200
       /\ \A e \in db.enrollments :
             e.id \notin Ids(last.pre.enrollments) => e.student_id \in Ids(db.students)

(* C8: submit_enrollment with an academic_year_id that names no academic   *)
(* year fails with NotFound (404) and changes no table.                    *)
C8_MissingYearNotFound ==
    (NothingElseFails /\ Req.academic_year_id \notin Ids(years))
    => (last.resp.status = 404 /\ db = last.pre)

(* C9: submit_enrollment with a family_id that names no family fails with  *)
(* NotFound (404) and changes no table; no family with that id is created. *)
C9_MissingFamilyNotFound ==
    (Called /\ Req.family_id # Null /\ Req.family_id \notin Ids(last.pre.families))
    => /\ last.resp.status = 404
       /\ db = last.pre
       /\ Req.family_id \notin Ids(db.families)

\* such a call carried children and selections, and a store that would not fail
C9_Witness ==
    /\ Called /\ last.fault = "none"
    /\ Req.family_id # Null /\ Req.family_id \notin Ids(last.pre.families)
    /\ Len(Req.students) >= 1 /\ Len(Req.class_selections) >= 1
    /\ last.resp.status = 404

(* C10: in a submission that succeeds, a guardian, student or emergency    *)
(* contact whose client id is absent, unparseable, or parses to an id that *)
(* is not one of the target family's existing children of that type (an    *)
(* id of another family's child included) is inserted as a new child of    *)
(* the target family under a fresh id; and no child of another family is   *)
(* updated, re-parented or deleted by any submission.                      *)
InsertedFresh(pre, post, items, ids, family) ==
    \A i \in 1..Len(items) :
        ~Matches(items, i, OwnIds(pre, family)) =>
            /\ ids[i] \notin AllIds(last.pre)
            /\ \E r \in post : r.id = ids[i] /\ r.family_id = family

OthersUntouched(pre, post, family) ==
    /\ { r \in pre : r.family_id # family } = { r \in post : r.family_id # family }
    /\ \A r \in post : r.family_id # family => r.id \notin OwnIds(pre, family)

C10_UnknownIdsInsert ==
    Called =>
        /\ Succeeded =>
              /\ InsertedFresh(last.pre.guardians, db.guardians, Req.guardians,
                               last.ids.guardians, TargetFamily)
              /\ InsertedFresh(last.pre.students, db.students, Req.students,
                               last.ids.students, TargetFamily)
              /\ InsertedFresh(last.pre.emergency_contacts, db.emergency_contacts,
                               Req.emergency_contacts, last.ids.emergency_contacts,
                               TargetFamily)
        /\ OthersUntouched(last.pre.guardians, db.guardians, TargetFamily)
        /\ OthersUntouched(last.pre.students, db.students, TargetFamily)
        /\ OthersUntouched(last.pre.emergency_contacts, db.emergency_contacts,
                           TargetFamily)

\* a student item carrying the id of another family's student, and a guardian
\* item carrying a placeholder: both are inserted under the target family
C10_Witness ==
    /\ Succeeded /\ Req.family_id # Null
    /\ Len(Req.students) = 1 /\ Len(Req.guardians) = 1
    /\ IsUuidStr(Req.students[1].id)
    /\ \E r \in last.pre.students :
          /\ r.id = UuidOf(Req.students[1].id)
          /\ r.family_id # Req.family_id
          /\ r \in db.students
          /\ r.first_name # Req.students[1].first_name
    /\ Req.guardians[1].id = TmpStr(1)
    /\ last.ids.students[1] \in OwnIds(db.students, Req.family_id)
    /\ last.ids.guardians[1] \in OwnIds(db.guardians, Req.family_id)

----------------------------------------------------------------------------
(* C11: the order of the submitted guardians, students and emergency       *)
(* contacts does not matter: for every permutation of the three lists of   *)
(* the last request (lists naming one durable id twice with different      *)
(* values included), the same call on the same store ends with the same    *)
(* kept rows (ids and field values), the same ids deleted and the same     *)
(* number of rows inserted.                                                *)
Perms(s) ==
    { [i \in 1..Len(s) |-> s[p[i]]] :
        p \in { q \in [1..Len(s) -> 1..Len(s)] :
                  \A i, j \in 1..Len(s) : q[i] = q[j] => i = j } }

\* the rows of a table that existed before, and how many are new
KeptRows(pre, post) == { r \in post : r.id \in Ids(pre) }
InsertedCount(pre, post) == Cardinality({ r \in post : r.id \notin Ids(pre) })

SameChildren(pre, a, b) ==
    /\ KeptRows(pre, a) = KeptRows(pre, b)
    /\ InsertedCount(pre, a) = InsertedCount(pre, b)

\* the call of `request` on the store the last call started from
Replay(request) ==
    LET cyc == CurrentYearClasses(classes, request.academic_year_id)
        gl == CHOOSE f \in LevelDicts({ c \in cyc : IsGiaoLy(c) }) : TRUE
        vn == CHOOSE f \in LevelDicts({ c \in cyc : IsVietNgu(c) }) : TRUE
    IN  submit_enrollment(last.pre, nextId, classes, request, last.fault, gl, vn)

C11_OrderIrrelevant ==
    (Called /\ last.fault = "none") =>
        \A g \in Perms(Req.guardians), s \in Perms(Req.students),
           c \in Perms(Req.emergency_contacts) :
            \A out \in { Replay([Req EXCEPT !.guardians = g, !.students = s,
                                            !.emergency_contacts = c]) } :
                /\ SameChildren(last.pre.guardians, out.db.guardians, db.guardians)
                /\ SameChildren(last.pre.students, out.db.students, db.students)
                /\ SameChildren(last.pre.emergency_contacts,
                                out.db.emergency_contacts, db.emergency_contacts)

----------------------------------------------------------------------------
(* C12: after any sequence of the admin calls on students, families,       *)
(* classes and enrollments, every persisted enrollment references a        *)
(* student that still exists and a class that still exists.                *)
C12_EnrollmentsReferenceExisting ==
    \A e \in db.enrollments :
        e.student_id \in Ids(db.students) /\ e.class_id \in Ids(classes)

(* C13: after delete_family succeeds for family F, no guardian, student or *)
(* emergency contact that belonged to F is still persisted.                *)
C13_FamilyDeleteCascades ==
    (alast.op = "delete_family" /\ alast.status = 204) =>
        /\ Ids(db.guardians) \cap OwnIds(alast.pre.guardians, alast.args.family_id) = {}
        /\ Ids(db.students) \cap OwnIds(alast.pre.students, alast.args.family_id) = {}
        /\ Ids(db.emergency_contacts)
               \cap OwnIds(alast.pre.emergency_contacts, alast.args.family_id) = {}

(* C14: no two persisted enrollments share the same (student_id, class_id) *)
(* pair, also after a submission whose class selections name the same      *)
(* student and the same level more than once.                              *)
C14_UniqueStudentClassPair ==
    \A e1, e2 \in db.enrollments :
        (e1.student_id # Null /\ e1.student_id = e2.student_id
         /\ e1.class_id = e2.class_id) => e1 = e2

----------------------------------------------------------------------------
(* C15: a transition_school_year call whose target year T exists succeeds; *)
(* in the state it commits T has is_active = is_current = TRUE and the     *)
(* year that was active before (if any, and other than T) has both FALSE;  *)
(* it returns the id of the year that was active before the call (none if  *)
(* there was none) as previous_active_year_id and T as new_active_year_id. *)
TransitionStep == ylast'.op = "transition" /\ ylast'.year_id \in Ids(years)

TransitionOutcome ==
    LET T == ylast'.year_id
        before == ActiveYears(years)
    IN  /\ ylast'.status = 200
        /\ \E y \in years' : y.id = T /\ y.is_active /\ y.is_current
        /\ \A o \in before : o.id # T =>
              \E y \in years' : y.id = o.id /\ ~y.is_active /\ ~y.is_current
        /\ ylast'.previous_active_year_id =
              (IF before = {} THEN Null ELSE (CHOOSE o \in before : TRUE).id)
        /\ ylast'.new_active_year_id = T
        /\ Ids(years') = Ids(years)

C15_TransitionSwitchesActiveYear == [][TransitionStep => TransitionOutcome]_vars

\* a transition away from another active year has been committed
C15_Witness ==
    /\ ylast.op = "transition" /\ ylast.status = 200
    /\ ylast.previous_active_year_id # Null
    /\ ylast.previous_active_year_id # ylast.year_id
    /\ ylast.new_active_year_id = ylast.year_id
    /\ \E y \in years : y.id = ylast.year_id /\ y.is_active /\ y.is_current
    /\ \E y \in years : y.id = ylast.previous_active_year_id /\ ~y.is_active

----------------------------------------------------------------------------
(* C16: compute_school_year_status returns "active" iff is_active; else    *)
(* "archived" iff transition_date is unset or not in the future and        *)
(* end_year is set and less than the current calendar year; else           *)
(* "upcoming".  C16_Expected(EndYearSet) is that table, given what counts  *)
(* as a set end_year.                                                      *)
ProbedStatus == probe.fn = "compute_school_year_status"

C16_Expected(EndYearSet(_)) ==
    LET year == probe.args.year
        today == probe.args.today
    IN  IF year.is_active THEN "active"
        ELSE IF /\ \/ year.transition_date = Absent
                   \/ ~DateAfter(year.transition_date[1], today)
                /\ EndYearSet(year.end_year)
                /\ year.end_year[1] < today.year
        THEN "archived"
        ELSE "upcoming"

IsSet(v) == v # Absent

\* the claim as written: every end_year other than NULL is set
C16_Original == ProbedStatus => probe.result = C16_Expected(IsSet)

\* the claim as amended: an end_year of 0 counts as unset
C16_StatusTable == ProbedStatus => probe.result = C16_Expected(IntTruthy)

\* an inactive year that spans today is reported "upcoming"
C16_Witness ==
    /\ ProbedStatus
    /\ ~probe.args.year.is_active
    /\ IntTruthy(probe.args.year.start_year) /\ IntTruthy(probe.args.year.end_year)
    /\ probe.args.year.start_year[1] <= probe.args.today.year
    /\ probe.args.today.year <= probe.args.year.end_year[1]
    /\ probe.args.year.transition_date # Absent
    /\ ~DateAfter(probe.args.year.transition_date[1], probe.args.today)
    /\ probe.result = "upcoming"

----------------------------------------------------------------------------
(* C17: get_active_or_latest_academic_year returns a year with is_active = *)
(* TRUE whenever one exists; otherwise the year with the greatest          *)
(* (start_year, id) pair; it fails with 404 exactly when the table is      *)
(* empty.  A year without start_year has no pair greater than that of a    *)
(* year with one.                                                          *)
ProbedLatest == probe.fn = "get_active_or_latest_academic_year"

PairGreater(y, z) ==
    LET ky == IF y.start_year = Absent THEN -1 ELSE y.start_year[1]
        kz == IF z.start_year = Absent THEN -1 ELSE z.start_year[1]
    IN  ky > kz \/ (ky = kz /\ y.id > z.id)

C17_ActiveOrLatest ==
    ProbedLatest =>
        LET rows == probe.args.rows
            active == { y \in rows : y.is_active }
        IN  /\ probe.result.status = 404 <=> rows = {}
            /\ rows # {} => probe.result.status = 200
            /\ active # {} => probe.result.year_id \in Ids(active)
            /\ (rows # {} /\ active = {}) =>
                  \E y \in rows : /\ y.id = probe.result.year_id
                                  /\ \A z \in rows : z = y \/ PairGreater(y, z)

----------------------------------------------------------------------------
(* C18: delete_school_year of a year that a class refers to answers 400    *)
(* and leaves the years and the classes as they were; a year leaves the    *)
(* table only in a call that names it while no class refers to it.         *)
DeleteStep == ylast'.op = "delete"

Referenced(year_id) == \E c \in classes : c.academic_year_id = year_id

C18_DeleteOutcome ==
    LET year_id == ylast'.year_id
    IN  /\ (year_id \in Ids(years) /\ Referenced(year_id)) =>
              /\ ylast'.status = 400
              /\ years' = years
              /\ classes' = classes
        /\ years' # years =>
              /\ year_id \in Ids(years)
              /\ ~Referenced(year_id)
              /\ ylast'.status = 204
              /\ years' = { y \in years : y.id # year_id }

C18_ReferencedYearNotDeleted == [][DeleteStep => C18_DeleteOutcome]_vars

\* a delete was refused: the year is still there, with a class that refers to it
C18_Witness ==
    /\ ylast.op = "delete"
    /\ ylast.status = 400
    /\ ylast.year_id \in Ids(years)
    /\ Referenced(ylast.year_id)

----------------------------------------------------------------------------
(* C19: create_school_year with the name of an existing year answers 400   *)
(* and changes nothing: no year is added and no year loses is_active,      *)
(* whatever is_active the request carried.                                 *)
CreateStep == ylast'.op = "create"

NameTaken == \E y \in years : y.name = ylast'.data[1]

NothingChanged == years' = years /\ nextYearId' = nextYearId

C19_DuplicateNameRejected ==
    [][(CreateStep /\ NameTaken) => (ylast'.status = 400 /\ NothingChanged)]_vars

----------------------------------------------------------------------------
(* C20: parse_class_level returns the number written by the longest run of *)
(* digits at the end of the name with its blanks trimmed, and returns      *)
(* nothing exactly when the trimmed name does not end in a digit.          *)
ProbedLevel == probe.fn = "parse_class_level"

\* the name without the blanks before its first and after its last other character
Trimmed(s) ==
    LET solid == { i \in 1..Len(s) : s[i] # " " }
    IN  IF solid = {} THEN << >>
        ELSE SubSeq(s, CHOOSE i \in solid : \A j \in solid : i <= j,
                       CHOOSE i \in solid : \A j \in solid : j <= i)

EndsInDigit(t) == t # << >> /\ IsDigit(t[Len(t)])

RECURSIVE Pow10(_)
Pow10(n) == IF n = 0 THEN 1 ELSE 10 * Pow10(n - 1)

\* the number written by the digits t[from], ..., t[Len(t)]
RECURSIVE Written(_, _)
Written(t, from) ==
    IF from > Len(t) THEN 0
    ELSE DigitVal(t[from]) * Pow10(Len(t) - from) + Written(t, from + 1)

\* where the longest run of digits at the end of t starts
RunStart(t) ==
    CHOOSE k \in 1..Len(t) :
        /\ \A i \in k..Len(t) : IsDigit(t[i])
        /\ k = 1 \/ ~IsDigit(t[k - 1])

C20_TrailingDigitsParsed ==
    ProbedLevel =>
        LET t == Trimmed(probe.args[1])
        IN  /\ probe.result = Absent <=> ~EndsInDigit(t)
            /\ EndsInDigit(t) => probe.result = << Written(t, RunStart(t)) >>

\* a name with blanks around it that ends in two digits
C20_Witness ==
    /\ ProbedLevel
    /\ probe.args[1] = <<" ", "1", "2", " ">>
    /\ probe.result = <<12>>

----------------------------------------------------------------------------
(* C21: get_next_class_name returns nothing exactly when parse_class_level *)
(* returns nothing or a level of 9 or more; otherwise it returns the       *)
(* trimmed name with the digits at its end replaced by level + 1: what     *)
(* stands before the digits is kept and parse_class_level of the result is *)
(* level + 1.                                                              *)
ProbedNextName == probe.fn = "get_next_class_name"

C21_NextClassName ==
    ProbedNextName =>
        LET level == parse_class_level(probe.args[1])
            t == Trimmed(probe.args[1])
        IN  /\ probe.result = Absent <=> (level = Absent \/ level[1] >= 9)
            /\ probe.result # Absent =>
                  LET next == probe.result[1]
                      k == RunStart(t)
                  IN  /\ next = SubSeq(t, 1, k - 1) \o << DigitChars[level[1] + 2] >>
                      /\ parse_class_level(next) = << level[1] + 1 >>

\* "Viet Ngu 5" gives "Viet Ngu 6"
C21_Witness ==
    /\ ProbedNextName
    /\ probe.args[1] = <<"V", "i", "e", "t", " ", "N", "g", "u", " ", "5">>
    /\ probe.result = << <<"V", "i", "e", "t", " ", "N", "g", "u", " ", "6">> >>

----------------------------------------------------------------------------
(* C22: two transition_school_year calls with different targets, each of   *)
(* which selects the active year before the other commits, can both commit *)
(* and leave two active years: when both targets were loaded inactive,     *)
(* both are active after the two commits.                                  *)
BothTransitioned ==
    \A p \in Procs : yearTxn[p].pc = "done" /\ yearTxn[p].status = 200

ReadBeforeOtherCommit ==
    /\ yearTxn[1].read < yearTxn[2].committed
    /\ yearTxn[2].read < yearTxn[1].committed

C22_Case ==
    /\ BothTransitioned
    /\ ReadBeforeOtherCommit
    /\ yearTxn[1].target # yearTxn[2].target
    /\ \A p \in Procs : \A y \in yearTxn[p].new_year : ~y.is_active

C22_InterleavedTransitionsBothActive ==
    C22_Case =>
        /\ \A p \in Procs : \E y \in years : y.id = yearTxn[p].target /\ y.is_active
        /\ Cardinality(ActiveYears(years)) >= 2

\* both requests have committed and two years are active
C22_Witness ==
    /\ C22_Case
    /\ Cardinality(ActiveYears(years)) = 2

\* C23: two submissions for one existing family are in flight at the same
\* time (each does its work before the other commits) and both commit.  The
\* family's guardians, students, contacts and enrollments are then what the
\* submission that committed later would have left on its own.
FamilyState(store, family_id) ==
    [guardians |-> { g \in store.guardians : g.family_id = family_id },
     students |-> { s \in store.students : s.family_id = family_id },
     emergency_contacts |-> { c \in store.emergency_contacts : c.family_id = family_id },
     enrollments |-> { e \in store.enrollments :
                         \E s \in store.students :
                            s.family_id = family_id /\ s.id = e.student_id }]

BothSubmitted ==
    \A p \in Procs : submitTxn[p].pc = "done" /\ submitTxn[p].status = 200

SubmittedTogether ==
    /\ BothSubmitted
    /\ submitTxn[1].read < submitTxn[2].committed
    /\ submitTxn[2].read < submitTxn[1].committed

C23_LastCommitWins ==
    SubmittedTogether =>
        \A p \in Procs :
            (\A q \in Procs : submitTxn[q].committed <= submitTxn[p].committed)
                => FamilyState(db, RaceFamily) = FamilyState(submitTxn[p].post, RaceFamily)

\* C24: a request to an admin route of families.py (create, update or delete
\* of a family, guardian, student or emergency contact) by a caller who is not
\* an authenticated admin never reaches the handler: the store is as before,
\* an authenticated non-admin is answered 403 and an unauthenticated caller
\* 401 (a bearer token the identity provider could not be asked about is
\* answered 500 or 503).
FamilyRouteCalled == flast.op # "none"

Unauthenticated ==
    \/ flast.authorization \in {"missing", "malformed"}
    \/ flast.authorization = "bearer" /\ flast.provider = "rejected"

AuthenticatedNonAdmin ==
    flast.authorization = "bearer" /\ flast.provider \in {"norole", "user"}

AuthenticatedAdmin ==
    flast.authorization = "bearer" /\ flast.provider = "admin"

C24_NonAdminRejected ==
    (FamilyRouteCalled /\ ~AuthenticatedAdmin) =>
        /\ db = flast.pre
        /\ flast.status \in {401, 403, 500, 503}
        /\ AuthenticatedNonAdmin => flast.status = 403
        /\ Unauthenticated => flast.status = 401

\* a regular user is refused a call that would have changed the store
C24_Witness ==
    /\ FamilyRouteCalled
    /\ AuthenticatedNonAdmin
    /\ flast.status = 403
    /\ db = flast.pre
    /\ FamilyHandler(flast.op, flast.pre, nextId, flast.args).db # flast.pre

\* C25: the years start with is_current equal to is_active; after any
\* sequence of update_school_year and transition_school_year calls every
\* year still has is_current equal to is_active.
C25_CurrentFollowsActive ==
    \A y \in years : y.is_current = y.is_active

\* C28: after any sequence of create_school_year and update_school_year
\* calls no two years have the same name.
C28_NamesUnique ==
    \A a, b \in years : a.id # b.id => a.name # b.name

\* C26: for each student of the family, get_suggested_enrollments suggests
\* exactly the classes of the active-or-latest year whose name is
\* get_next_class_name of a class of level below 9 the student was enrolled in
\* during the immediately preceding academic year; an enrollment of any other
\* year produces no suggestion.
ProbedSuggestions ==
    probe.fn = "get_suggested_enrollments" /\ probe.result.status = 200

C26_Expected(rows, enrollments, student_id) ==
    LET current == Row(rows, get_active_or_latest_academic_year(rows).year_id)
        preceding == { y \in rows : y.start_year[1] = current.start_year[1] - 1 }
        attended == { c \in SuggestClasses :
                        /\ c.academic_year_id \in Ids(preceding)
                        /\ \E e \in enrollments :
                              e.student_id = student_id /\ e.class_id = c.id }
    IN  { n.id : n \in { c \in SuggestClasses :
            /\ c.academic_year_id = current.id
            /\ \E o \in attended :
                  /\ parse_class_level(o.name) # Absent
                  /\ parse_class_level(o.name)[1] < 9
                  /\ get_next_class_name(o.name) = << c.name >> } }

C26_SuggestionsFromLastYear ==
    ProbedSuggestions =>
        \A pair \in probe.result.suggested_enrollments :
            pair[2] = C26_Expected(probe.args[1], probe.args[2], pair[1])

\* C27: every Enrollment a successful submit_enrollment for family F creates
\* references a student that belongs to F after the submission; a selection
\* whose student_id is the durable id of a student of another family
\* produces no enrollment.
C27_EnrollmentsWithinFamily ==
    Succeeded =>
        \A i \in 1..Len(last.resp.enrollment_ids) :
            \A e \in db.enrollments :
                e.id = last.resp.enrollment_ids[i] =>
                    \E s \in db.students :
                        s.id = e.student_id /\ s.family_id = last.resp.family_id

\* C29: whenever check_transition_needed answers should_transition = true,
\* the year it names has a greater start_year than the active year; so after
\* a transition a following check never suggests going back to an older year.
TransitionSuggested ==
    ylast.op = "check" /\ ylast.data = << TRUE >>

C29_SuggestedYearIsNewer ==
    TransitionSuggested =>
        \A active \in ActiveYears(years) :
            \A y \in years :
                y.id = ylast.year_id => y.start_year[1] > active.start_year[1]

\* C30: submit_enrollment creates no Enrollment in a class of a year whose
\* enrollment_open is false.
C30_NoEnrollmentInClosedYear ==
    Succeeded =>
        \A i \in 1..Len(last.resp.enrollment_ids) :
            \A e \in db.enrollments :
                e.id = last.resp.enrollment_ids[i] =>
                    \A c \in classes :
                        c.id = e.class_id =>
                            \A y \in years :
                                y.id = c.academic_year_id => y.enrollment_open

=============================================================================
